---- MODULE Spec2Model ----
(***************************************************************************)
(* Prediction-market arbitrage engine: the strategy runtime (scan loop,    *)
(* monitor loop, entry and exit handlers of the single-leg spread          *)
(* strategy, the two-leg calendar strategy and the two-venue cross-        *)
(* platform strategy), the position store, and the reconnecting streamer.  *)
(* Prices are in mills (1/1000 of a dollar): the executor rounds prices to *)
(* three decimals.                                                         *)
(***************************************************************************)
EXTENDS Integers, Sequences, FiniteSets, TLC

VARIABLES
    strategy,        \* class of the runtime: "spread", "calendar" or "cross"
    restarts,        \* number of process restarts so far
    next_id,         \* identity of the next position dict object
    open_positions,  \* BaseStrategy.open_positions, an insertion-ordered dict
    forced,          \* identities of position dicts whose 'force_exit' is True
    seen,            \* BaseStrategy.seen_opportunities
    pm_positions,    \* PositionManager.positions
    disk,            \* contents of data/positions_<wallet>.json
    scan_pc,         \* where the scan loop's coroutine stands
    cur_opp,         \* the opportunity enter_position is working on
    enter_results,   \* results of the entry orders ("pending" while in flight)
    enter_orders,    \* orders the current enter_position has submitted
    rollback_result, \* result of the last rollback SELL ("idle" when there was none)
    mon_pc,          \* where the monitor loop's coroutine stands
    snapshot,        \* list(self.open_positions.items()) of the current pass
    mon_i,           \* index into snapshot
    exit_pos,        \* the position exit_position is working on
    exit_results,    \* results of the exit orders
    exit_orders,     \* orders the current exit_position has submitted
    sold_legs,       \* history: <<id, token>> of every SELL of a leg that succeeded
    pass_pending,    \* history: ids of the snapshot that had force_exit set when it was
                     \* taken and for which the pass has not invoked exit_position yet
    streamer,        \* class of the streamer: "core" (WebSocketManager) or "calendar"
    ws,              \* self.ws / self.ws_connection: 0 is None, n the n-th socket
    is_connected,    \* self.is_connected
    running,         \* self._running / self.is_running
    subscribed_tokens, \* WebSocketManager.subscribed_tokens
    tokens_to_monitor, \* CalendarArbitrageWebSocketManager.tokens_to_monitor
    last_message_time, \* "never" (0), "recent" or "stale" (older than max_silence)
    reconnect_delay, \* local of WebSocketManager.start_reconnect_loop; for the
                     \* calendar streamer the wait_time run() slept last
    reconnect_count, \* local of CalendarArbitrageWebSocketManager.run
    run_pc,          \* where CalendarArbitrageWebSocketManager.run stands
    link_up,         \* the venue's end: the current socket's connection is alive
    server_subs,     \* the venue's end: tokens subscribed on the current connection
    ws_op,           \* history: what the streamer's last step logged ("reconnected"
                     \* right after a reconnect completed, "callback_raised", ...)
    held_before,     \* history: the subscription set held before the last disconnect
    rl_tiers,        \* the limiter's tiers: a sequence of [max_calls, time_window]
    rl_now,          \* time.time(), in ticks of 0.1 s
    rl_calls,        \* RateLimiter.calls of every tier: a deque of timestamps
    rl_lock,         \* RateLimiter._lock of every tier: the holder (0 when free)
    rl_queue,        \* RateLimiter._lock of every tier: the waiters, in order
    rl_caller,       \* every caller's coroutine: where it stands, at which tier
    rl_done,         \* history: the times at which admissions completed
    ps_positions,    \* PositionManager.positions of the store taken on its own
    ps_fs,           \* the files of the data directory: what every path holds
    ps_pc,           \* where the store's process stands ("dead": no process)
    ps_before,       \* history: what the path held when the current mutation began
    ps_saved,        \* history: the last _save replaced the file
    cap_wallet,      \* the venue's end: the wallet's USDC balance, in mills
    cap_cache,       \* PolymarketConnection._balance_cache (NoBalance for None)
    cap_open,        \* open_positions of the extreme-price runtime
    cap_seen,        \* seen_opportunities of the extreme-price runtime
    cap_scan,        \* the opportunity whose BUY is in flight (NoEntry when none)
    cap_exit,        \* the position whose SELL is in flight (NoExit when none)
    lp_running,      \* BaseStrategy.running of the runtime whose loops are followed
    lp_interval,     \* BaseStrategy.scan_interval, in seconds
    lp_pc,           \* where scan_loop and monitor_loop stand
    lp_sleep,        \* the seconds of the asyncio.sleep each loop is in (0: in none)
    lp_last,         \* history: the call that raised in each loop's last iteration
    lp_iters,        \* history: the iterations each loop has begun
    dr_dry_run,      \* the top-level dry_run flag (PolymarketConnection.dry_run)
    dr_held,         \* TradeExecutor.open_positions: token -> entry price
    dr_posted,       \* the venue's end: the orders posted to it
    dr_last,         \* history: the last execute_trade call and what it returned
    ar_kind,         \* the two-leg strategy followed: "calendar" or "cross"
    ar_opp,          \* the opportunity the detector emitted last (NoArOpp when none)
    ar_fills,        \* the simulated fills of the entry whose BUYs are in flight
    ar_pos,          \* the two-leg position recorded last (NoArPos when none)
    tk_executor,     \* TradeExecutor.open_positions: token -> entry_price
    tk_strategy,     \* the keys of the strategy's open_positions
    tk_last,         \* history: what the strategy completed last
    call_args,       \* a method called on its own: its arguments ...
    call_result,     \* ... and what it returned, NotReturned before it has
    fl_book,         \* the order book _simulate_fill reads: its asks and its bids
    fl_call,         \* the side and the size _simulate_fill is called with
    fl_out,          \* what the call returned (NotCalled before it)
    hl_now,          \* time.time(), in ticks of 30 s (the period of the health check)
    hl_connected,    \* WebSocketManager.is_connected, with self.ws set
    hl_since,        \* history: the time of the last connect
    hl_last          \* WebSocketManager.last_message_time (0 until a message arrives)

rt_vars == <<strategy, restarts, next_id, open_positions, forced, seen,
             pm_positions, disk, scan_pc, cur_opp, enter_results, enter_orders,
             rollback_result, mon_pc, snapshot, mon_i, exit_pos,
             exit_results, exit_orders, sold_legs, pass_pending>>

ws_vars == <<streamer, ws, is_connected, running, subscribed_tokens, tokens_to_monitor,
             last_message_time, reconnect_delay, reconnect_count, run_pc, link_up,
             server_subs, ws_op, held_before>>

rl_vars == <<rl_tiers, rl_now, rl_calls, rl_lock, rl_queue, rl_caller, rl_done>>

ps_vars == <<ps_positions, ps_fs, ps_pc, ps_before, ps_saved>>

cap_vars == <<cap_wallet, cap_cache, cap_open, cap_seen, cap_scan, cap_exit>>

lp_vars == <<lp_running, lp_interval, lp_pc, lp_sleep, lp_last, lp_iters>>

dr_vars == <<dr_dry_run, dr_held, dr_posted, dr_last>>

ar_vars == <<ar_kind, ar_opp, ar_fills, ar_pos>>

fl_vars == <<fl_book, fl_call, fl_out>>
call_vars == <<call_args, call_result>>
tk_vars == <<tk_executor, tk_strategy, tk_last>>

hl_vars == <<hl_now, hl_connected, hl_since, hl_last>>

ex_vars == <<cap_vars, lp_vars, dr_vars, ar_vars, fl_vars, hl_vars, call_vars, tk_vars>>

(* What a step of the extreme-price runtime, and of the two loops, leaves alone *)
beside_cap == <<rt_vars, ws_vars, rl_vars, ps_vars, lp_vars, dr_vars, ar_vars, fl_vars, hl_vars, call_vars, tk_vars>>

beside_lp == <<rt_vars, ws_vars, rl_vars, ps_vars, cap_vars, dr_vars, ar_vars, fl_vars, hl_vars, call_vars, tk_vars>>

beside_dr == <<rt_vars, ws_vars, rl_vars, ps_vars, cap_vars, lp_vars, ar_vars, fl_vars, hl_vars, call_vars, tk_vars>>

beside_ar == <<rt_vars, ws_vars, rl_vars, ps_vars, cap_vars, lp_vars, dr_vars, fl_vars, hl_vars, call_vars, tk_vars>>

beside_fl == <<rt_vars, ws_vars, rl_vars, ps_vars, cap_vars, lp_vars, dr_vars, ar_vars, hl_vars, call_vars, tk_vars>>

beside_hl == <<rt_vars, ws_vars, rl_vars, ps_vars, cap_vars, lp_vars, dr_vars, ar_vars, fl_vars, call_vars, tk_vars>>

beside_call == <<rt_vars, ws_vars, rl_vars, ps_vars, cap_vars, lp_vars, dr_vars, ar_vars, fl_vars, hl_vars, tk_vars>>

beside_tk == <<rt_vars, ws_vars, rl_vars, ps_vars, cap_vars, lp_vars, dr_vars, ar_vars, fl_vars, hl_vars, call_vars>>

util_vars == <<rl_vars, ps_vars, ex_vars>>

vars == <<rt_vars, ws_vars, util_vars>>

----------------------------------------------------------------------------
(* Bounds of the model *)

MaxTokens == 3
MaxRestarts == 1
MaxEntries == 2
MaxConnections == 3

Tokens == 1..MaxTokens

(* Program parameters, in mills *)
PennyPrice == 10
EntryOffset == 10
TargetProfit == 200
EstimatedFee == 10
EarlyExitThreshold == 5
MaxLossTolerance == 20
ExitFallbackMarkup == 100
SpreadSize == 100
CrossSize == 10
CalendarSize == 10
MaxPositions == 10
MaxReconnectDelay == 60
ReconnectMaxAttempts == 10
ReconnectInterval == 5
MaxBackoffExponent == 3

MaxPrice == 300

(* What a read of a venue book can return. A best bid of 0 stands for an
   empty bid side. An ask read is <<>> when no book comes back, <<0>> for an
   empty ask side, <<a>> for a best ask of a. *)
BidLevels == {0, 40, 480}
AskReads == {<<>>, <<0>>, <<200>>, <<500>>}

(* The asks the two-leg detectors found for the two legs of an opportunity *)
ScannedAsks == <<400, 500>>

StrategyKinds == {"spread", "calendar", "cross"}

----------------------------------------------------------------------------
(* Python dict with insertion order: a sequence of [key, pos] entries *)

DictKeys(d) == {d[i].key : i \in DOMAIN d}

DictHas(d, k) == \E i \in DOMAIN d : d[i].key = k

DictGet(d, k) == d[CHOOSE i \in DOMAIN d : d[i].key = k].pos

DictSet(d, k, p) ==
    IF DictHas(d, k)
    THEN [i \in DOMAIN d |-> IF d[i].key = k THEN [key |-> k, pos |-> p] ELSE d[i]]
    ELSE Append(d, [key |-> k, pos |-> p])

DictPop(d, k) == SelectSeq(d, LAMBDA e : e.key # k)

(* Plain dict (the store): a function over its keys *)

MapPut(m, k, v) == [x \in (DOMAIN m) \cup {k} |-> IF x = k THEN v ELSE m[x]]

MapDel(m, k) == [x \in (DOMAIN m) \ {k} |-> m[x]]

EmptyMap == [x \in {} |-> 0]

NoOpp == [kind |-> "none", key |-> <<>>, legs |-> <<>>, size |-> 0, prices |-> <<>>]

NoPos == [id |-> 0, opp_key |-> <<>>, legs |-> <<>>, size |-> 0, prices |-> <<>>,
          entry_price |-> 0, total_cost |-> 0]

----------------------------------------------------------------------------
(* Opportunities the detectors emit *)

IsNoToken(t) == t % 2 = 1

SpreadOpp(t, best_bid) ==
    [kind |-> "spread", key |-> <<t>>, legs |-> <<t>>, size |-> SpreadSize,
     prices |-> <<best_bid + EntryOffset>>]

CalendarOpp(n, y) ==
    [kind |-> "calendar", key |-> <<n, y>>, legs |-> <<n, y>>, size |-> CalendarSize,
     prices |-> ScannedAsks]

CrossOpp(p, k) ==
    [kind |-> "cross", key |-> <<p, k>>, legs |-> <<p, k>>, size |-> CrossSize,
     prices |-> ScannedAsks]

Opportunities ==
    CASE strategy = "spread" ->
           {SpreadOpp(t, b) : t \in Tokens, b \in {x \in BidLevels : x > 0 /\ x < MaxPrice}}
      [] strategy = "calendar" ->
           {CalendarOpp(n, y) : n \in {x \in Tokens : IsNoToken(x)},
                                y \in {x \in Tokens : ~IsNoToken(x)}}
      [] OTHER -> {CrossOpp(p, p) : p \in Tokens}

(* The id an opportunity carries is never a key of open_positions for the
   calendar strategy: the keys are the leg tokens, the id is "<no>:<yes>". *)
OppInPositions(opp) ==
    IF opp.kind = "spread" THEN DictHas(open_positions, opp.legs[1]) ELSE FALSE

----------------------------------------------------------------------------
(* Orders and their results *)

VenueOutcomes == {"filled", "rejected", "error"}

(* book_bid is the best bid of the token's book at the moment a SELL is
   submitted (0 for an empty bid side, and for a BUY). *)
Order(venue, token, side, size, price, book_bid) ==
    [venue |-> venue, token |-> token, side |-> side, size |-> size, price |-> price,
     book_bid |-> book_bid]

(* TradeExecutor.execute_trade: the venue's response when it reports success,
   None when it does not or when the client raises. *)
ExecuteTrade(outcome) == IF outcome = "filled" THEN "success" ELSE "none"

(* KalshiClient.create_order: the order, or the exception of a failed request. *)
KalshiCreateOrder(outcome) == IF outcome = "filled" THEN "order" ELSE "exc"

LegSuccessAnyResult(r) == r # "pending"

(* The success test of an order result: a dict whose "success" is set, or
   the order a venue client returned. *)
LegSuccess(r) == r \in {"success", "order"}

(* The token the rollback SELL of a calendar entry is for *)
RollbackToken(no_ok, legs) == IF no_ok THEN legs[1] ELSE legs[2]

(* The all(...) test of CalendarArbitrageStrategy.exit_position, and the
   result test of the single-leg exit. *)
ExitAllSucceeded(results) == \A i \in DOMAIN results : LegSuccess(results[i])

AllKnown(results) == \A i \in DOMAIN results : results[i] # "pending"

(* pos_data / position_data: the opportunity's fields and those the entry adds *)
NewPos(opp) ==
    [id |-> next_id, opp_key |-> opp.key, legs |-> opp.legs, size |-> opp.size,
     prices |-> opp.prices, entry_price |-> opp.prices[1],
     total_cost |-> IF Len(opp.prices) = 2 THEN opp.prices[1] + opp.prices[2]
                    ELSE opp.prices[1]]

(* PositionManager.add_position: the record stored under token_id. The
   metadata is spread last, so its 'token_id' and 'size' replace the
   arguments; entry_price is replaced only when the metadata carries one. *)
StoreRecord(token, entry_price, pos) ==
    [token_id |-> pos.opp_key, entry_price |-> entry_price, size |-> pos.size,
     status |-> "OPEN", strategy_name |-> strategy]

(* PositionManager.get_positions_by_strategy *)
GetPositionsByStrategy(store, name) ==
    {t \in DOMAIN store : store[t].strategy_name = name}

----------------------------------------------------------------------------
(* Cooperative scheduling: a coroutine runs from one await to the next; the
   other coroutines of the event loop run only while it is suspended. *)

ScanSuspended == scan_pc \in {"sleep", "legs", "rollback"}

MonitorSuspended == mon_pc \in {"sleep", "sell"}

(* JSON text: a value is written as a string or as a number *)
JsonString(x) == [json |-> "string", text |-> x]

JsonNumber(x) == [json |-> "number", text |-> x]

(* The fields of a stored record that hold floats *)
NumberFields == {"entry_price", "size"}

(* A dump that writes every record's status as it was when it was added *)
DumpRecordAsAdded(r) ==
    [f \in DOMAIN r |-> IF f \in NumberFields THEN JsonNumber(r[f])
                         ELSE JsonString(IF f = "status" THEN "OPEN" ELSE r[f])]

(* json.dump(self.positions, f): an object of objects, field by field *)
DumpRecord(r) ==
    [f \in DOMAIN r |-> IF f \in NumberFields THEN JsonNumber(r[f]) ELSE JsonString(r[f])]

Dump(positions) == [t \in DOMAIN positions |-> DumpRecord(positions[t])]

(* json.load(f): a JSON string is read as a str, a JSON number as a float *)
ParseValue(v) == v.text

ParseRecord(j) == [f \in DOMAIN j |-> ParseValue(j[f])]

Parse(doc) == [t \in DOMAIN doc |-> ParseRecord(doc[t])]

(* PositionManager._save: the file is replaced by the dump of the dict; any
   exception is caught and logged, and the file keeps what it held. *)
Save(positions, old_disk, write_ok) == IF write_ok THEN Dump(positions) ELSE old_disk

(* PositionManager.add_position followed by _save *)
AddPosition(token, entry_price, pos, write_ok) ==
    /\ pm_positions' = MapPut(pm_positions, token, StoreRecord(token, entry_price, pos))
    /\ disk' = Save(pm_positions', disk, write_ok)

(* PositionManager.remove_position: _save runs only when the token was there *)
RemovePosition(token, write_ok) ==
    /\ pm_positions' = MapDel(pm_positions, token)
    /\ disk' = IF token \in DOMAIN pm_positions
               THEN Save(pm_positions', disk, write_ok) ELSE disk

----------------------------------------------------------------------------
(* Scan loop and enter_position *)

(* enter_position returns: its locals are gone *)
EnterIdle ==
    /\ scan_pc' = "sleep"
    /\ cur_opp' = NoOpp
    /\ enter_results' = <<>>
    /\ enter_orders' = <<>>

(* scan_loop: self.seen_opportunities.add(token_id) *)
MarkSeenDropped(seen_set, key) == seen_set

MarkSeenForgetful(seen_set, key) == {key}

MarkSeen(seen_set, key) == seen_set \cup {key}

(* scan_loop body for one opportunity of a BaseStrategy scan loop (spread,
   calendar): skip when seen or open, mark seen, should_enter (always True
   for both), then enter_position up to its first await. sim is what
   _simulate_fill and the slippage check of the calendar entry find. *)
ScanEnter(opp, sim) ==
    /\ strategy \in {"spread", "calendar"}
    /\ scan_pc = "sleep" /\ MonitorSuspended
    /\ next_id <= MaxEntries
    /\ opp.key \notin seen
    /\ ~OppInPositions(opp)
    /\ seen' = MarkSeen(seen, opp.key)
    /\ IF strategy = "calendar" /\ sim # "ok"
       THEN EnterIdle
       ELSE /\ scan_pc' = "legs"
            /\ cur_opp' = opp
            /\ enter_orders' = [i \in DOMAIN opp.legs |->
                                  Order("poly", opp.legs[i], "BUY", opp.size, opp.prices[i], 0)]
            /\ enter_results' = [i \in DOMAIN opp.legs |-> "pending"]
    /\ rollback_result' = "idle"
    /\ UNCHANGED <<strategy, restarts, next_id, open_positions, forced,
                   pm_positions, disk, mon_pc, snapshot, mon_i, exit_pos,
                   exit_results, exit_orders, sold_legs, pass_pending, ws_vars, util_vars>>

(* CrossPlatformArbitrageStrategy.run and enter_position up to the gather:
   no seen-set; the position count is checked by both. Live mode. *)
CrossEnter(opp) ==
    /\ strategy = "cross"
    /\ scan_pc = "sleep"
    /\ next_id <= MaxEntries
    /\ Len(open_positions) < MaxPositions
    /\ scan_pc' = "legs"
    /\ cur_opp' = opp
    /\ enter_orders' = <<Order("poly", opp.legs[1], "BUY", opp.size, opp.prices[1], 0),
                         Order("kalshi", opp.legs[2], "BUY", opp.size, opp.prices[2], 0)>>
    /\ enter_results' = <<"pending", "pending">>
    /\ rollback_result' = "idle"
    /\ UNCHANGED <<strategy, restarts, next_id, open_positions, forced, seen,
                   pm_positions, disk, mon_pc, snapshot, mon_i, exit_pos,
                   exit_results, exit_orders, sold_legs, pass_pending, ws_vars, util_vars>>

(* The venue answers one entry order *)
EnterLegDone(i, outcome) ==
    /\ scan_pc = "legs"
    /\ i \in DOMAIN enter_results
    /\ enter_results[i] = "pending"
    /\ enter_results' = [enter_results EXCEPT ![i] =
                            IF enter_orders[i].venue = "kalshi"
                            THEN KalshiCreateOrder(outcome) ELSE ExecuteTrade(outcome)]
    /\ UNCHANGED <<strategy, restarts, next_id, open_positions, forced, seen,
                   pm_positions, disk, scan_pc, cur_opp, enter_orders, rollback_result,
                   mon_pc, snapshot, mon_i, exit_pos, exit_results, exit_orders,
                   sold_legs, pass_pending, ws_vars, util_vars>>

(* BaseStrategy.enter_position after the await of the BUY: on success the
   position goes into open_positions, and then into the store. *)
EnterResumeSingle ==
    /\ strategy = "spread"
    /\ scan_pc = "legs" /\ AllKnown(enter_results) /\ MonitorSuspended
    /\ IF LegSuccess(enter_results[1])
       THEN /\ open_positions' = DictSet(open_positions, cur_opp.legs[1], NewPos(cur_opp))
            /\ next_id' = next_id + 1
            /\ scan_pc' = "store1"
            /\ UNCHANGED <<cur_opp, enter_results, enter_orders>>
       ELSE /\ EnterIdle
            /\ UNCHANGED <<open_positions, next_id>>
    /\ UNCHANGED <<strategy, restarts, forced, seen, pm_positions, disk,
                   rollback_result, mon_pc, snapshot, mon_i, exit_pos,
                   exit_results, exit_orders, sold_legs, pass_pending, ws_vars, util_vars>>

(* CalendarArbitrageStrategy.enter_position after the gather: the case
   analysis on the two results. *)
EnterResumeCalendar(book_bid) ==
    /\ strategy = "calendar"
    /\ scan_pc = "legs" /\ AllKnown(enter_results) /\ MonitorSuspended
    /\ LET a == LegSuccess(enter_results[1])
           b == LegSuccess(enter_results[2])
           pos == NewPos(cur_opp)
       IN  CASE a /\ b ->
                  /\ open_positions' = DictSet(DictSet(open_positions, cur_opp.legs[1], pos),
                                               cur_opp.legs[2], pos)
                  /\ next_id' = next_id + 1
                  /\ scan_pc' = "store1"
                  /\ UNCHANGED <<cur_opp, enter_results, enter_orders, rollback_result>>
             [] a # b ->
                  /\ enter_orders' = Append(enter_orders,
                         Order("poly", RollbackToken(a, cur_opp.legs),
                               "SELL", cur_opp.size, PennyPrice, book_bid))
                  /\ rollback_result' = "pending"
                  /\ scan_pc' = "rollback"
                  /\ UNCHANGED <<cur_opp, enter_results, open_positions, next_id>>
             [] OTHER ->
                  /\ EnterIdle
                  /\ UNCHANGED <<open_positions, next_id, rollback_result>>
    /\ UNCHANGED <<strategy, restarts, forced, seen, pm_positions, disk,
                   mon_pc, snapshot, mon_i, exit_pos, exit_results, exit_orders,
                   sold_legs, pass_pending, ws_vars, util_vars>>

(* The venue answers the rollback SELL; enter_position logs and returns False *)
RollbackDone(outcome) ==
    /\ scan_pc = "rollback" /\ MonitorSuspended
    /\ rollback_result' = ExecuteTrade(outcome)
    /\ EnterIdle
    /\ UNCHANGED <<strategy, restarts, next_id, open_positions, forced, seen,
                   pm_positions, disk, mon_pc, snapshot, mon_i, exit_pos,
                   exit_results, exit_orders, sold_legs, pass_pending, ws_vars, util_vars>>

(* CrossPlatformArbitrageStrategy.enter_position after the gather *)
EnterResumeCross ==
    /\ strategy = "cross"
    /\ scan_pc = "legs" /\ AllKnown(enter_results)
    /\ IF LegSuccess(enter_results[1]) /\ LegSuccess(enter_results[2])
       THEN /\ open_positions' = DictSet(open_positions, cur_opp.key, NewPos(cur_opp))
            /\ next_id' = next_id + 1
       ELSE UNCHANGED <<open_positions, next_id>>
    /\ EnterIdle
    /\ UNCHANGED <<strategy, restarts, forced, seen, pm_positions, disk,
                   rollback_result, mon_pc, snapshot, mon_i, exit_pos,
                   exit_results, exit_orders, sold_legs, pass_pending, ws_vars, util_vars>>

(* position_manager.add_position for the first leg's token *)
EnterStore1(write_ok) ==
    /\ scan_pc = "store1"
    /\ LET pos == DictGet(open_positions, cur_opp.legs[1])
       IN  AddPosition(cur_opp.legs[1], cur_opp.prices[1], pos, write_ok)
    /\ IF strategy = "calendar"
       THEN /\ scan_pc' = "store2"
            /\ UNCHANGED <<cur_opp, enter_results, enter_orders>>
       ELSE EnterIdle
    /\ UNCHANGED <<strategy, restarts, next_id, open_positions, forced, seen,
                   rollback_result, mon_pc, snapshot, mon_i, exit_pos,
                   exit_results, exit_orders, sold_legs, pass_pending, ws_vars, util_vars>>

(* position_manager.add_position for the second leg's token *)
EnterStore2(write_ok) ==
    /\ scan_pc = "store2"
    /\ LET pos == DictGet(open_positions, cur_opp.legs[2])
       IN  AddPosition(cur_opp.legs[2], cur_opp.prices[2], pos, write_ok)
    /\ EnterIdle
    /\ UNCHANGED <<strategy, restarts, next_id, open_positions, forced, seen,
                   rollback_result, mon_pc, snapshot, mon_i, exit_pos,
                   exit_results, exit_orders, sold_legs, pass_pending, ws_vars, util_vars>>

----------------------------------------------------------------------------
(* Monitor loop, should_exit and exit_position *)

(* SpreadArbitrageStrategy.should_exit on one read of the token's book *)
ShouldExitSpread(pos, force_exit, asks, bid, timed_out) ==
    IF force_exit THEN TRUE
    ELSE IF asks = <<>> \/ asks = <<0>> THEN FALSE
    ELSE IF bid > 0 /\ bid > pos.entry_price THEN TRUE
    ELSE IF timed_out THEN TRUE
    ELSE asks[1] - pos.entry_price >= TargetProfit

(* CalendarArbitrageStrategy.should_exit on the two best bids *)
ShouldExitCalendar(pos, bid_no, bid_yes) ==
    IF bid_no = 0 \/ bid_yes = 0 THEN FALSE
    ELSE IF bid_no + bid_yes > pos.total_cost + 2 * EstimatedFee + EarlyExitThreshold
    THEN TRUE
    ELSE /\ bid_no + bid_yes < pos.total_cost
         /\ pos.total_cost - (bid_no + bid_yes) > MaxLossTolerance

(* The exit price SpreadArbitrageStrategy.exit_position works out when the
   monitor loop passes none; 0 stands for None (an empty ask side leaves it
   unset, and formatting it for the log raises). *)
SpreadExitPrice(pos, asks) ==
    IF asks = <<>> THEN pos.entry_price + ExitFallbackMarkup
    ELSE IF asks = <<0>> THEN 0
    ELSE IF asks[1] - pos.entry_price >= TargetProfit + EstimatedFee
    THEN pos.entry_price + TargetProfit
    ELSE asks[1] - PennyPrice

(* The SELL price of a leg in CalendarArbitrageStrategy.exit_position *)
CalendarExitPrice(bid) == IF bid > 0 THEN bid ELSE PennyPrice

ExitIdle ==
    /\ exit_pos' = NoPos
    /\ exit_results' = <<>>
    /\ exit_orders' = <<>>

(* The for loop of monitor_loop moves to the next snapshot entry, or the pass
   ends and the loop sleeps. *)
MonitorAdvance ==
    /\ ExitIdle
    /\ IF mon_i < Len(snapshot)
       THEN /\ mon_i' = mon_i + 1
            /\ mon_pc' = "iter"
            /\ UNCHANGED snapshot
       ELSE /\ mon_i' = 0
            /\ mon_pc' = "sleep"
            /\ snapshot' = <<>>

(* An exception leaves the for loop: it is caught around the whole pass, and
   the loop sleeps before the next pass. *)
MonitorAbort ==
    /\ ExitIdle
    /\ mon_i' = 0
    /\ mon_pc' = "sleep"
    /\ snapshot' = <<>>

(* monitor_loop wakes up and takes list(self.open_positions.items()) *)
MonitorSnapshot ==
    /\ strategy \in {"spread", "calendar"}
    /\ mon_pc = "sleep" /\ ScanSuspended
    /\ open_positions # <<>>
    /\ snapshot' = open_positions
    /\ mon_i' = 1
    /\ mon_pc' = "iter"
    /\ pass_pending' = {open_positions[i].pos.id : i \in DOMAIN open_positions} \cap forced
    /\ UNCHANGED exit_orders
    /\ UNCHANGED <<strategy, restarts, next_id, open_positions, forced, seen,
                   pm_positions, disk, scan_pc, cur_opp, enter_results, enter_orders,
                   rollback_result, exit_pos, exit_results, sold_legs, ws_vars, util_vars>>

(* One snapshot entry of a spread runtime: should_exit, and when it says so
   exit_position up to the await of close_position. The first book read is
   should_exit's, the second is exit_position's. *)
MonitorCheckSpread(asks1, bid1, timed_out, asks2) ==
    /\ strategy = "spread"
    /\ mon_pc = "iter"
    /\ LET e == snapshot[mon_i]
           want == ShouldExitSpread(e.pos, e.pos.id \in forced, asks1, bid1, timed_out)
       IN  IF ~want
           THEN /\ MonitorAdvance
                /\ UNCHANGED pass_pending
           ELSE /\ pass_pending' = pass_pending \ {e.pos.id}
                /\ IF ~DictHas(open_positions, e.key)
                   THEN MonitorAdvance
                   ELSE LET pos == DictGet(open_positions, e.key)
                            price == SpreadExitPrice(pos, asks2)
                        IN  IF price = 0
                            THEN MonitorAbort
                            ELSE /\ exit_pos' = pos
                                 /\ exit_orders' = <<Order("poly", e.key, "SELL", pos.size, price, 0)>>
                                 /\ exit_results' = <<"pending">>
                                 /\ mon_pc' = "sell"
                                 /\ UNCHANGED <<snapshot, mon_i>>
    /\ UNCHANGED <<strategy, restarts, next_id, open_positions, forced, seen,
                   pm_positions, disk, scan_pc, cur_opp, enter_results, enter_orders,
                   rollback_result, sold_legs, ws_vars, util_vars>>

(* One snapshot entry of a calendar runtime: should_exit on the snapshot's
   position, and when it says so exit_position(token_id) up to the gather of
   the two SELLs. bids1 are the best bids should_exit reads for the two legs,
   bids2 those exit_position reads. *)
MonitorCheckCalendar(bids1, bids2) ==
    /\ strategy = "calendar"
    /\ mon_pc = "iter"
    /\ LET e == snapshot[mon_i]
           want == ShouldExitCalendar(e.pos, bids1[1], bids1[2])
       IN  IF ~want
           THEN /\ MonitorAdvance
                /\ UNCHANGED pass_pending
           ELSE /\ pass_pending' = pass_pending \ {e.pos.id}
                /\ IF ~DictHas(open_positions, e.key)
                   THEN MonitorAdvance
                   ELSE LET pos == DictGet(open_positions, e.key)
                        IN  /\ exit_pos' = pos
                            /\ exit_orders' =
                                 [i \in 1..2 |-> Order("poly", pos.legs[i], "SELL", pos.size,
                                                       CalendarExitPrice(bids2[i]), bids2[i])]
                            /\ exit_results' = <<"pending", "pending">>
                            /\ mon_pc' = "sell"
                            /\ UNCHANGED <<snapshot, mon_i>>
    /\ UNCHANGED <<strategy, restarts, next_id, open_positions, forced, seen,
                   pm_positions, disk, scan_pc, cur_opp, enter_results, enter_orders,
                   rollback_result, sold_legs, ws_vars, util_vars>>

(* The venue answers one exit order *)
ExitLegDone(i, outcome) ==
    /\ mon_pc = "sell"
    /\ i \in DOMAIN exit_results
    /\ exit_results[i] = "pending"
    /\ exit_results' = [exit_results EXCEPT ![i] = ExecuteTrade(outcome)]
    /\ sold_legs' = IF outcome = "filled"
                    THEN sold_legs \cup {<<exit_pos.id, exit_orders[i].token>>}
                    ELSE sold_legs
    /\ UNCHANGED <<strategy, restarts, next_id, open_positions, forced, seen,
                   pm_positions, disk, scan_pc, cur_opp, enter_results, enter_orders,
                   rollback_result, mon_pc, snapshot, mon_i, exit_pos, exit_orders,
                   pass_pending, ws_vars, util_vars>>

(* exit_position after its await: when every SELL succeeded the position's
   keys leave open_positions, and then the store; otherwise it returns False
   and nothing is removed. A position dict that left open_positions takes its
   'force_exit' flag and its sales with it. *)
ExitResume ==
    /\ mon_pc = "sell" /\ AllKnown(exit_results) /\ ScanSuspended
    /\ IF ExitAllSucceeded(exit_results)
       THEN /\ open_positions' =
                 IF strategy = "calendar"
                 THEN DictPop(DictPop(open_positions, exit_pos.legs[1]), exit_pos.legs[2])
                 ELSE DictPop(open_positions, exit_pos.legs[1])
            /\ forced' = forced \ {exit_pos.id}
            /\ sold_legs' = {s \in sold_legs : s[1] # exit_pos.id}
            /\ mon_pc' = "unstore1"
            /\ UNCHANGED <<snapshot, mon_i, exit_pos, exit_results, exit_orders>>
       ELSE /\ MonitorAdvance
            /\ UNCHANGED <<open_positions, forced, sold_legs>>
    /\ UNCHANGED <<strategy, restarts, next_id, seen, pm_positions, disk,
                   scan_pc, cur_opp, enter_results, enter_orders, rollback_result,
                   pass_pending, ws_vars, util_vars>>

(* position_manager.remove_position for the first leg's token *)
ExitUnstore1(write_ok) ==
    /\ mon_pc = "unstore1"
    /\ RemovePosition(exit_pos.legs[1], write_ok)
    /\ IF strategy = "calendar"
       THEN /\ mon_pc' = "unstore2"
            /\ UNCHANGED <<snapshot, mon_i, exit_pos, exit_results, exit_orders>>
       ELSE MonitorAdvance
    /\ UNCHANGED <<strategy, restarts, next_id, open_positions, forced, seen,
                   scan_pc, cur_opp, enter_results, enter_orders, rollback_result,
                   sold_legs, pass_pending, ws_vars, util_vars>>

(* position_manager.remove_position for the second leg's token *)
ExitUnstore2(write_ok) ==
    /\ mon_pc = "unstore2"
    /\ RemovePosition(exit_pos.legs[2], write_ok)
    /\ MonitorAdvance
    /\ UNCHANGED <<strategy, restarts, next_id, open_positions, forced, seen,
                   scan_pc, cur_opp, enter_results, enter_orders, rollback_result,
                   sold_legs, pass_pending, ws_vars, util_vars>>

----------------------------------------------------------------------------
(* The streamer's callback and process restarts *)

(* The data argument of _handle_price_update: a dict whose 'bids' list has
   best_bid as its first level (0 for an empty list), or a bare float *)
BookData(best_bid) == [kind |-> "dict", value |-> best_bid]

FloatData(price) == [kind |-> "float", value |-> price]

(* SpreadArbitrageStrategy._handle_price_update(token_id, data) by what it
   does: "return" for a token without an open position, "raise" at
   data.get('bids') when data is not a dict, "force" when the first bid is
   above the position's entry price, "cache" otherwise. *)
PriceUpdateOutcome(positions, token_id, data) ==
    IF ~DictHas(positions, token_id) THEN "return"
    ELSE IF data.kind # "dict" THEN "raise"
    ELSE IF data.value > 0 /\ data.value > DictGet(positions, token_id).entry_price
    THEN "force"
    ELSE "cache"

(* _handle_price_update called with data = {'bids': [...]} *)
HandlePriceUpdate(t, best_bid) ==
    /\ strategy = "spread"
    /\ ScanSuspended /\ MonitorSuspended
    /\ PriceUpdateOutcome(open_positions, t, BookData(best_bid)) = "force"
    /\ DictGet(open_positions, t).id \notin forced
    /\ forced' = forced \cup {DictGet(open_positions, t).id}
    /\ UNCHANGED <<strategy, restarts, next_id, open_positions, seen,
                   pm_positions, disk, scan_pc, cur_opp, enter_results, enter_orders,
                   rollback_result, mon_pc, snapshot, mon_i, exit_pos, exit_results,
                   exit_orders, sold_legs, pass_pending, ws_vars, util_vars>>

(* PositionManager._load of a readable file *)
Load(file) == Parse(file)

(* BaseStrategy.__init__: open_positions is first set to the store's
   positions of this strategy, and then, under "# State", to {}. *)
ConstructOpenPositions(store) == <<>>

(* The process dies at any point and is started again: PositionManager loads
   the file and BaseStrategy.__init__ builds the runtime's state. *)
Restart ==
    /\ restarts < MaxRestarts
    /\ restarts' = restarts + 1
    /\ pm_positions' = Load(disk)
    /\ open_positions' = ConstructOpenPositions(pm_positions')
    /\ forced' = {}
    /\ seen' = {}
    /\ scan_pc' = "sleep"
    /\ cur_opp' = NoOpp
    /\ enter_results' = <<>>
    /\ enter_orders' = <<>>
    /\ rollback_result' = "idle"
    /\ mon_pc' = "sleep"
    /\ snapshot' = <<>>
    /\ mon_i' = 0
    /\ exit_pos' = NoPos
    /\ exit_results' = <<>>
    /\ exit_orders' = <<>>
    /\ pass_pending' = {}
    /\ sold_legs' = {}
    /\ UNCHANGED <<strategy, next_id, disk, ws_vars, util_vars>>

(* main_async on KeyboardInterrupt: stop() on every strategy, cancel() on
   every strategy task. CancelledError is raised in the scan loop and in the
   monitor loop at the await each is suspended at; it is no Exception, so
   neither enter_position nor the loops' 'except Exception' catch it and both
   coroutines end there. An order already submitted is answered by the venue
   all the same: enter_results keeps, as history, what the venue did with
   the orders that were in flight. *)
Shutdown(o1, o2) ==
    /\ ScanSuspended /\ MonitorSuspended
    /\ scan_pc' = "cancelled"
    /\ mon_pc' = "cancelled"
    /\ enter_results' =
          [i \in DOMAIN enter_results |->
             IF enter_results[i] # "pending" THEN enter_results[i]
             ELSE IF enter_orders[i].venue = "kalshi"
                  THEN KalshiCreateOrder(IF i = 1 THEN o1 ELSE o2)
                  ELSE ExecuteTrade(IF i = 1 THEN o1 ELSE o2)]
    /\ UNCHANGED <<strategy, restarts, next_id, open_positions, forced, seen,
                   pm_positions, disk, cur_opp, enter_orders, rollback_result,
                   snapshot, mon_i, exit_pos, exit_results, exit_orders,
                   sold_legs, pass_pending, ws_vars, util_vars>>

----------------------------------------------------------------------------
(* The streamers: WebSocketManager ("core") and
   CalendarArbitrageWebSocketManager ("calendar") *)

StreamerKinds == {"core", "calendar"}

(* The subscription set the streamer holds *)
TokenSet == IF streamer = "core" THEN subscribed_tokens ELSE tokens_to_monitor

(* WebSocketManager.is_healthy *)
IsHealthy ==
    IF ~is_connected \/ ws = 0 THEN FALSE
    ELSE IF last_message_time = "never" THEN TRUE
    ELSE last_message_time = "recent"

(* What WebSocketManager.close leaves in subscribed_tokens *)
CloseTokens(tokens) == {}

(* The doubling of reconnect_delay after a failed reconnect *)
NextReconnectDelay(d) == IF d * 2 < MaxReconnectDelay THEN d * 2 ELSE MaxReconnectDelay

(* WebSocketManager.connect called by the owner while not connected; ok is
   whether one of the attempts got a socket. *)
WsConnect(ok) ==
    /\ streamer = "core"
    /\ ~is_connected
    /\ run_pc # "reconnecting"
    /\ IF ok
       THEN /\ ws < MaxConnections
            /\ ws' = ws + 1
            /\ is_connected' = TRUE
            /\ link_up' = TRUE
            /\ server_subs' = {}
       ELSE UNCHANGED <<ws, is_connected, link_up, server_subs>>
    /\ ws_op' = "idle"
    /\ UNCHANGED <<rt_vars, util_vars, streamer, running, subscribed_tokens, tokens_to_monitor,
                   last_message_time, reconnect_delay, reconnect_count, run_pc,
                   held_before>>

(* WebSocketManager.subscribe(token_ids): a send on a dead connection raises,
   and the set is left as it was. *)
WsSubscribe(token_ids) ==
    /\ streamer = "core"
    /\ ws # 0 /\ is_connected
    /\ IF link_up
       THEN /\ subscribed_tokens' = subscribed_tokens \cup token_ids
            /\ server_subs' = server_subs \cup token_ids
       ELSE UNCHANGED <<subscribed_tokens, server_subs>>
    /\ ws_op' = "idle"
    /\ UNCHANGED <<rt_vars, util_vars, streamer, ws, is_connected, running, tokens_to_monitor,
                   last_message_time, reconnect_delay, reconnect_count, run_pc,
                   link_up, held_before>>

(* The connection drops: the venue forgets the connection's subscriptions *)
LinkDrop ==
    /\ link_up
    /\ link_up' = FALSE
    /\ server_subs' = {}
    /\ held_before' = TokenSet
    /\ ws_op' = "idle"
    /\ UNCHANGED <<rt_vars, util_vars, streamer, ws, is_connected, running, subscribed_tokens,
                   tokens_to_monitor, last_message_time, reconnect_delay,
                   reconnect_count, run_pc>>

(* A message the venue sends: a price update for a token, or anything else *)
PriceMsg(t, p) == [kind |-> "price", asset_id |-> t, price |-> p]

OtherMsg == [kind |-> "other", asset_id |-> 0, price |-> 0]

Messages == {PriceMsg(t, p) : t \in Tokens, p \in BidLevels} \cup {OtherMsg}

(* receive_data calls the callback when the message is a dict with an
   asset_id and a price; "data.get('price') or data.get('bid')" is None for
   a price of 0. *)
CallbackCalled(msg) == msg.kind = "price" /\ msg.asset_id # 0 /\ msg.price # 0

(* What receive_data hands to the callback: float(price) *)
CallbackData(msg) == FloatData(msg.price)

(* "await callback(asset_id, float(price))" with the callback that
   _setup_websocket registers, a plain lambda around _handle_price_update:
   what the handler raises propagates, and the None it returns otherwise
   cannot be awaited. *)
AwaitCallback(outcome) == IF outcome = "raise" THEN "raise" ELSE "raise"

(* One recv of WebSocketManager.receive_data with the spread strategy's
   callback: a message stamps last_message_time and may reach the callback;
   ConnectionClosed, and any exception of the callback, clear is_connected
   and end the loop. *)
WsReceive(msg) ==
    /\ streamer = "core"
    /\ ws # 0 /\ is_connected
    /\ IF ~link_up
       THEN /\ is_connected' = FALSE
            /\ ws_op' = "idle"
            /\ UNCHANGED <<last_message_time, forced>>
       ELSE /\ last_message_time' = "recent"
            /\ IF CallbackCalled(msg)
               THEN LET out == PriceUpdateOutcome(open_positions, msg.asset_id,
                                                  CallbackData(msg))
                    IN  /\ forced' = IF out = "force"
                                     THEN forced \cup {DictGet(open_positions, msg.asset_id).id}
                                     ELSE forced
                        /\ is_connected' = (AwaitCallback(out) # "raise")
                        /\ ws_op' = IF AwaitCallback(out) = "raise"
                                    THEN "callback_raised" ELSE "delivered"
               ELSE /\ ws_op' = "idle"
                    /\ UNCHANGED <<is_connected, forced>>
    /\ UNCHANGED <<strategy, restarts, next_id, open_positions, seen, pm_positions,
                   disk, scan_pc, cur_opp, enter_results, enter_orders,
                   rollback_result, mon_pc, snapshot, mon_i, exit_pos, exit_results,
                   exit_orders, sold_legs, pass_pending,
                   streamer, ws, running, subscribed_tokens, tokens_to_monitor,
                   reconnect_delay, reconnect_count, run_pc, link_up, server_subs,
                   held_before, util_vars>>

(* max_silence goes by without a message *)
TimePasses ==
    /\ streamer = "core"
    /\ last_message_time = "recent"
    /\ last_message_time' = "stale"
    /\ ws_op' = "idle"
    /\ UNCHANGED <<rt_vars, util_vars, streamer, ws, is_connected, running, subscribed_tokens,
                   tokens_to_monitor, reconnect_delay, reconnect_count, run_pc,
                   link_up, server_subs, held_before>>

(* WebSocketManager.start_reconnect_loop begins (auto_reconnect is set) *)
WsStartReconnectLoop ==
    /\ streamer = "core"
    /\ run_pc = "idle"
    /\ running' = TRUE
    /\ reconnect_delay' = 1
    /\ run_pc' = "loop"
    /\ ws_op' = "idle"
    /\ UNCHANGED <<rt_vars, util_vars, streamer, ws, is_connected, subscribed_tokens,
                   tokens_to_monitor, last_message_time, reconnect_count, link_up,
                   server_subs, held_before>>

(* The loop finds the connection unhealthy and calls reconnect(), which
   first awaits close(). *)
WsReconnectClose ==
    /\ streamer = "core"
    /\ run_pc = "loop" /\ running
    /\ ~IsHealthy
    /\ held_before' = IF link_up THEN subscribed_tokens ELSE held_before
    /\ is_connected' = FALSE
    /\ subscribed_tokens' = CloseTokens(subscribed_tokens)
    /\ link_up' = FALSE
    /\ server_subs' = {}
    /\ run_pc' = "reconnecting"
    /\ ws_op' = "idle"
    /\ UNCHANGED <<rt_vars, util_vars, streamer, ws, running, tokens_to_monitor,
                   last_message_time, reconnect_delay, reconnect_count>>

(* reconnect() after close(): connect, and on success subscribe again to
   what subscribed_tokens holds; then the loop's bookkeeping of the delay. *)
WsReconnectConnect(ok) ==
    /\ streamer = "core"
    /\ run_pc = "reconnecting"
    /\ IF ok
       THEN /\ ws < MaxConnections
            /\ ws' = ws + 1
            /\ is_connected' = TRUE
            /\ link_up' = TRUE
            /\ server_subs' = IF subscribed_tokens # {} THEN subscribed_tokens ELSE {}
            /\ reconnect_delay' = 1
            /\ ws_op' = "reconnected"
       ELSE /\ reconnect_delay' = NextReconnectDelay(reconnect_delay)
            /\ ws_op' = "idle"
            /\ UNCHANGED <<ws, is_connected, link_up, server_subs>>
    /\ run_pc' = "loop"
    /\ UNCHANGED <<rt_vars, util_vars, streamer, running, subscribed_tokens, tokens_to_monitor,
                   last_message_time, reconnect_count, held_before>>

(* The loop's while test finds _running cleared *)
WsLoopExit ==
    /\ streamer = "core"
    /\ run_pc = "loop" /\ ~running
    /\ run_pc' = "idle"
    /\ ws_op' = "idle"
    /\ UNCHANGED <<rt_vars, util_vars, streamer, ws, is_connected, running, subscribed_tokens,
                   tokens_to_monitor, last_message_time, reconnect_delay,
                   reconnect_count, link_up, server_subs, held_before>>

(* WebSocketManager.stop: _running is cleared (no task was ever stored in
   _reconnect_task, so nothing is cancelled) and close() runs. *)
WsStop ==
    /\ streamer = "core"
    /\ running
    /\ running' = FALSE
    /\ is_connected' = FALSE
    /\ subscribed_tokens' = CloseTokens(subscribed_tokens)
    /\ link_up' = FALSE
    /\ server_subs' = {}
    /\ ws_op' = "idle"
    /\ UNCHANGED <<rt_vars, util_vars, streamer, ws, tokens_to_monitor, last_message_time,
                   reconnect_delay, reconnect_count, run_pc, held_before>>

(* add_tokens_to_monitor, before the streamer is started *)
CalAddTokens(token_ids) ==
    /\ streamer = "calendar"
    /\ run_pc = "idle"
    /\ ~(token_ids \subseteq tokens_to_monitor)
    /\ tokens_to_monitor' = tokens_to_monitor \cup token_ids
    /\ ws_op' = "idle"
    /\ UNCHANGED <<rt_vars, util_vars, streamer, ws, is_connected, running, subscribed_tokens,
                   last_message_time, reconnect_delay, reconnect_count, run_pc,
                   link_up, server_subs, held_before>>

(* CalendarArbitrageWebSocketManager.start: run() begins *)
CalRun ==
    /\ streamer = "calendar"
    /\ run_pc \in {"idle", "done"} /\ ~running
    /\ running' = TRUE
    /\ reconnect_count' = 0
    /\ run_pc' = "loop"
    /\ ws_op' = "idle"
    /\ UNCHANGED <<rt_vars, util_vars, streamer, ws, is_connected, subscribed_tokens,
                   tokens_to_monitor, last_message_time, reconnect_delay, link_up,
                   server_subs, held_before>>

(* The head of run()'s while loop: leave when is_running is cleared (and
   disconnect), go on to subscribe when connected, and otherwise call
   connect(), which awaits websockets.connect. *)
CalLoop ==
    /\ streamer = "calendar"
    /\ run_pc = "loop"
    /\ IF ~running
       THEN /\ is_connected' = FALSE
            /\ link_up' = FALSE
            /\ server_subs' = {}
            /\ run_pc' = "done"
       ELSE IF is_connected
       THEN /\ run_pc' = "subscribe"
            /\ UNCHANGED <<is_connected, link_up, server_subs>>
       ELSE /\ run_pc' = "connecting"
            /\ UNCHANGED <<is_connected, link_up, server_subs>>
    /\ ws_op' = "idle"
    /\ UNCHANGED <<rt_vars, util_vars, streamer, ws, running, subscribed_tokens, tokens_to_monitor,
                   last_message_time, reconnect_delay, reconnect_count, held_before>>

(* run(): reconnect_interval * (2 ** min(reconnect_count - 1, 3)) *)
CalWaitTime(count) ==
    ReconnectInterval * 2 ^ (IF count - 1 < MaxBackoffExponent THEN count - 1
                             ELSE MaxBackoffExponent)

(* connect() resumes after websockets.connect: on success it stores the
   socket and sets is_connected, whatever happened meanwhile; on failure
   run() counts the attempt, gives up after reconnect_max_attempts of them,
   and otherwise sleeps wait_time and goes back to the head of the loop. *)
CalConnectDone(ok) ==
    /\ streamer = "calendar"
    /\ run_pc = "connecting"
    /\ IF ok
       THEN /\ ws < MaxConnections
            /\ ws' = ws + 1
            /\ is_connected' = TRUE
            /\ link_up' = TRUE
            /\ server_subs' = {}
            /\ reconnect_count' = 0
            /\ run_pc' = "subscribe"
            /\ ws_op' = IF ws # 0 THEN "reconnecting" ELSE "idle"
            /\ UNCHANGED <<running, reconnect_delay>>
       ELSE /\ reconnect_count' = reconnect_count + 1
            /\ ws_op' = "idle"
            /\ IF reconnect_count' > ReconnectMaxAttempts
               THEN /\ running' = FALSE
                    /\ run_pc' = "done"
                    /\ UNCHANGED reconnect_delay
               ELSE /\ run_pc' = "loop"
                    /\ reconnect_delay' = CalWaitTime(reconnect_count')
                    /\ UNCHANGED running
            /\ UNCHANGED <<ws, is_connected, link_up, server_subs>>
    /\ UNCHANGED <<rt_vars, util_vars, streamer, subscribed_tokens, tokens_to_monitor,
                   last_message_time, held_before>>

(* CalendarArbitrageWebSocketManager.subscribe: one message per monitored
   token; a send on a dead connection raises and is logged. *)
CalSubscribe ==
    /\ streamer = "calendar"
    /\ run_pc = "subscribe"
    /\ server_subs' = IF ws # 0 /\ link_up THEN server_subs \cup tokens_to_monitor
                      ELSE server_subs
    /\ run_pc' = "listen"
    /\ ws_op' = IF ws_op = "reconnecting" THEN "reconnected" ELSE "idle"
    /\ UNCHANGED <<rt_vars, util_vars, streamer, ws, is_connected, running, subscribed_tokens,
                   tokens_to_monitor, last_message_time, reconnect_delay,
                   reconnect_count, link_up, held_before>>

(* _handle_message invokes the callback for a "price" message that names a
   token and carries a bid or an ask (a bid of 0 is not None). *)
CalCallbackCalled(msg) == msg.kind = "price" /\ msg.asset_id # 0

(* What a price-update callback does with one update *)
CallbackOutcomes == {"return", "raise"}

(* One message of listen(): _handle_message calls the callback inside a try
   whose except logs "Callback error"; is_connected and the iteration over
   the socket are left as they were. *)
CalReceive(msg, cb) ==
    /\ streamer = "calendar"
    /\ run_pc = "listen"
    /\ ws # 0 /\ link_up
    /\ ws_op' = IF ~CalCallbackCalled(msg) THEN "idle"
                ELSE IF cb = "raise" THEN "callback_raised" ELSE "delivered"
    /\ UNCHANGED <<rt_vars, util_vars, streamer, ws, is_connected, running, subscribed_tokens,
                   tokens_to_monitor, last_message_time, reconnect_delay,
                   reconnect_count, run_pc, link_up, server_subs, held_before>>

(* listen() ends when the connection is gone: the iteration over the socket
   stops quietly on a clean close, and raises otherwise, which clears
   is_connected. *)
CalListenEnd(clean) ==
    /\ streamer = "calendar"
    /\ run_pc = "listen"
    /\ ~link_up
    /\ is_connected' = IF clean THEN is_connected ELSE FALSE
    /\ run_pc' = "loop"
    /\ ws_op' = "idle"
    /\ UNCHANGED <<rt_vars, util_vars, streamer, ws, running, subscribed_tokens, tokens_to_monitor,
                   last_message_time, reconnect_delay, reconnect_count, link_up,
                   server_subs, held_before>>

(* CalendarArbitrageWebSocketManager.stop: is_running cleared, disconnect() *)
CalStop ==
    /\ streamer = "calendar"
    /\ running
    /\ running' = FALSE
    /\ is_connected' = FALSE
    /\ link_up' = FALSE
    /\ server_subs' = {}
    /\ ws_op' = "idle"
    /\ UNCHANGED <<rt_vars, util_vars, streamer, ws, subscribed_tokens, tokens_to_monitor,
                   last_message_time, reconnect_delay, reconnect_count, run_pc,
                   held_before>>

----------------------------------------------------------------------------
(* The rate limiter: RateLimiter and MultiTierRateLimiter. Time is counted
   in ticks of 0.1 s. *)

MaxTime == 9

MaxCallers == 3

MaxAdmissions == 6

Callers == 1..MaxCallers

(* The "small buffer" added to every wait *)
Buffer == 1

(* The limiters under check: one RateLimiter(max_calls, time_window), and a
   MultiTierRateLimiter of two tiers, the second with the larger burst and
   the lower rate (as in POLYMARKET_RATE_LIMITER). *)
SingleTier == <<[max_calls |-> 2, time_window |-> 3]>>

TwoTiers == <<[max_calls |-> 2, time_window |-> 3], [max_calls |-> 3, time_window |-> 6]>>

TierLists == {SingleTier, TwoTiers}

NoCall == [pc |-> "idle", tier |-> 0, wake |-> 0]

(* A test that lets a call go one tick before the window is over *)
ExpiredEarly(call, now, window) == call <= now - window + 1

(* The test of both cleaning loops of acquire *)
Expired(call, now, window) == call <= now - window

(* while self.calls and self.calls[0] <= now - self.time_window: popleft() *)
RECURSIVE Clean(_, _, _)
Clean(calls, now, window) ==
    IF calls # <<>> /\ Expired(Head(calls), now, window)
    THEN Clean(Tail(calls), now, window)
    ELSE calls

(* wait_time = self.time_window - (now - oldest_call) + 0.1 *)
WaitTime(calls, now, window) == window - (now - Head(calls)) + Buffer

(* The limiter's state as one record, for the operators below *)
RlState == [calls |-> rl_calls, lock |-> rl_lock, queue |-> rl_queue,
            caller |-> rl_caller, done |-> rl_done]

RECURSIVE Acquire(_, _, _)

(* The end of acquire of tier k: the call is recorded with the time read
   last, the lock is released, and the caller goes on to the next tier
   without an await in between. *)
RecordCall(c, k, st) ==
    Acquire(c, k + 1, [st EXCEPT !.calls[k] = Append(@, rl_now), !.lock[k] = 0])

(* acquire of tier k from the moment the lock is held up to the sleep or to
   the end *)
Locked(c, k, st) ==
    LET tier == rl_tiers[k]
        cleaned == Clean(st.calls[k], rl_now, tier.time_window)
        held == [st EXCEPT !.calls[k] = cleaned, !.lock[k] = c]
    IN  IF Len(cleaned) >= tier.max_calls
           /\ WaitTime(cleaned, rl_now, tier.time_window) > 0
        THEN [held EXCEPT !.caller[c] =
                 [pc |-> "sleeping", tier |-> k,
                  wake |-> rl_now + WaitTime(cleaned, rl_now, tier.time_window)]]
        ELSE RecordCall(c, k, held)

(* MultiTierRateLimiter.__aenter__ from tier k on ("async with limiter" of a
   single RateLimiter is the case of one tier): asyncio.Lock gives the lock
   at once when it is free and nobody waits, and queues the caller
   otherwise; past the last tier the admission is complete. *)
Acquire(c, k, st) ==
    IF k > Len(rl_tiers)
    THEN [st EXCEPT !.caller[c] = NoCall, !.done = Append(@, rl_now)]
    ELSE IF st.lock[k] # 0 \/ st.queue[k] # <<>>
    THEN [st EXCEPT !.queue[k] = Append(@, c),
                    !.caller[c] = [pc |-> "queued", tier |-> k, wake |-> 0]]
    ELSE Locked(c, k, st)

(* The limiter's variables take the fields of st *)
RlBecomes(st) ==
    /\ rl_calls' = st.calls
    /\ rl_lock' = st.lock
    /\ rl_queue' = st.queue
    /\ rl_caller' = st.caller
    /\ rl_done' = st.done

(* A caller enters "async with limiter" *)
RlEnter(c) ==
    /\ rl_caller[c].pc = "idle"
    /\ Len(rl_done) < MaxAdmissions
    /\ RlBecomes(Acquire(c, 1, RlState))
    /\ UNCHANGED <<rt_vars, ws_vars, ps_vars, ex_vars, rl_tiers, rl_now>>

(* The lock of a tier was released and its first waiter runs *)
RlLockGranted(c) ==
    /\ rl_caller[c].pc = "queued"
    /\ LET k == rl_caller[c].tier
       IN  /\ rl_lock[k] = 0
           /\ rl_queue[k] # <<>> /\ Head(rl_queue[k]) = c
           /\ RlBecomes(Locked(c, k, [RlState EXCEPT !.queue[k] = Tail(@)]))
    /\ UNCHANGED <<rt_vars, ws_vars, ps_vars, ex_vars, rl_tiers, rl_now>>

(* asyncio.sleep(wait_time) is over: the calls are cleaned again with the
   time read now, and the call is recorded. *)
RlWake(c) ==
    /\ rl_caller[c].pc = "sleeping"
    /\ rl_now >= rl_caller[c].wake
    /\ LET k == rl_caller[c].tier
           cleaned == Clean(rl_calls[k], rl_now, rl_tiers[k].time_window)
       IN  RlBecomes(RecordCall(c, k, [RlState EXCEPT !.calls[k] = cleaned]))
    /\ UNCHANGED <<rt_vars, ws_vars, ps_vars, ex_vars, rl_tiers, rl_now>>

(* A tick of the clock *)
RlTick ==
    /\ rl_now < MaxTime
    /\ rl_now' = rl_now + 1
    /\ UNCHANGED <<rt_vars, ws_vars, ps_vars, ex_vars, rl_tiers, rl_calls, rl_lock, rl_queue,
                   rl_caller, rl_done>>

(* The limiter of the given tiers as constructed *)
RlInit(tiers) ==
    /\ rl_tiers = tiers
    /\ rl_now = 0
    /\ rl_calls = [k \in DOMAIN tiers |-> <<>>]
    /\ rl_lock = [k \in DOMAIN tiers |-> 0]
    /\ rl_queue = [k \in DOMAIN tiers |-> <<>>]
    /\ rl_caller = [c \in Callers |-> NoCall]
    /\ rl_done = <<>>

----------------------------------------------------------------------------
(* The position store on its own: PositionManager and the files of its
   directory. The code is synchronous; the process can die between any two
   of its file operations. *)

(* self.filepath, the path of the corrupt-file backup, and the path that
   _save writes first *)
StorePath == "positions.json"

BackupPath == "positions.corrupt.json"

TmpPathInPlace == "positions.json"

TmpPath == "positions.tmp"

Paths == {StorePath, BackupPath, TmpPath}

(* What a path holds: nothing, a complete dump, text that json.load rejects,
   or a dump that was cut short *)
Absent == [kind |-> "absent", doc |-> EmptyMap]

JsonFile(doc) == [kind |-> "json", doc |-> doc]

Garbage == [kind |-> "garbage", doc |-> EmptyMap]

PartialFile == [kind |-> "partial", doc |-> EmptyMap]

Corrupt(file) == file.kind \in {"garbage", "partial"}

StatusValues == {"OPEN", "CLOSED"}

(* The record add_position stores for a spread entry of token t over bid b *)
PsRecord(t, b) ==
    StoreRecord(t, SpreadOpp(t, b).prices[1], NewPos(SpreadOpp(t, b)))

(* self.filepath.rename(backup) done as a copy *)
CopiedToBackup(fs) == [fs EXCEPT ![BackupPath] = fs[StorePath]]

(* self.filepath.rename(backup) *)
RenamedToBackup(fs) == [fs EXCEPT ![BackupPath] = fs[StorePath], ![StorePath] = Absent]

(* tmp_path.replace(self.filepath) *)
Replaced(fs) ==
    IF TmpPath = StorePath THEN fs
    ELSE [fs EXCEPT ![StorePath] = fs[TmpPath], ![TmpPath] = Absent]

(* A mutation has changed self.positions and calls _save *)
PsMutate(positions) ==
    /\ ps_pc = "idle"
    /\ ps_positions' = positions
    /\ ps_pc' = "save"
    /\ ps_before' = ps_fs[StorePath]
    /\ ps_saved' = FALSE
    /\ UNCHANGED <<rt_vars, ws_vars, ex_vars, rl_vars, ps_fs>>

(* PositionManager.__init__ and _load: no file gives the empty store, a
   readable file its contents; a file that json.load rejects is renamed to
   the backup path when the rename works, and the store starts empty. *)
PsStart(rename_ok) ==
    /\ ps_pc = "dead"
    /\ LET file == ps_fs[StorePath]
       IN  IF file.kind = "absent"
           THEN /\ ps_positions' = EmptyMap
                /\ UNCHANGED ps_fs
           ELSE IF ~Corrupt(file)
           THEN /\ ps_positions' = Load(file.doc)
                /\ UNCHANGED ps_fs
           ELSE /\ ps_positions' = EmptyMap
                /\ ps_fs' = IF rename_ok THEN RenamedToBackup(ps_fs) ELSE ps_fs
    /\ ps_pc' = "idle"
    /\ ps_before' = ps_fs'[StorePath]
    /\ ps_saved' = FALSE
    /\ UNCHANGED <<rt_vars, ws_vars, ex_vars, rl_vars>>

(* PositionManager.add_position *)
PsAdd(t, b) == PsMutate(MapPut(ps_positions, t, PsRecord(t, b)))

(* PositionManager.remove_position of a token the store holds *)
PsRemove(t) ==
    /\ t \in DOMAIN ps_positions
    /\ PsMutate(MapDel(ps_positions, t))

(* PositionManager.update_position of a token the store holds *)
PsUpdate(t, status) ==
    /\ t \in DOMAIN ps_positions
    /\ PsMutate([ps_positions EXCEPT ![t].status = status])

(* PositionManager.clear_all *)
PsClear == PsMutate(EmptyMap)

(* _save: open(tmp_path, 'w') truncates the file it is about to write *)
PsOpenTmp ==
    /\ ps_pc = "save"
    /\ ps_fs' = [ps_fs EXCEPT ![TmpPath] = PartialFile]
    /\ ps_pc' = "write"
    /\ UNCHANGED <<rt_vars, ws_vars, ex_vars, rl_vars, ps_positions, ps_before, ps_saved>>

(* _save: json.dump and flush; an exception is logged and _save returns *)
PsWriteTmp(ok) ==
    /\ ps_pc = "write"
    /\ IF ok
       THEN /\ ps_fs' = [ps_fs EXCEPT ![TmpPath] = JsonFile(Dump(ps_positions))]
            /\ ps_pc' = "replace"
       ELSE /\ ps_pc' = "idle"
            /\ UNCHANGED ps_fs
    /\ UNCHANGED <<rt_vars, ws_vars, ex_vars, rl_vars, ps_positions, ps_before, ps_saved>>

(* _save: tmp_path.replace(self.filepath); an exception is logged *)
PsReplace(ok) ==
    /\ ps_pc = "replace"
    /\ IF ok
       THEN /\ ps_fs' = Replaced(ps_fs)
            /\ ps_saved' = TRUE
       ELSE UNCHANGED <<ps_fs, ps_saved>>
    /\ ps_pc' = "idle"
    /\ UNCHANGED <<rt_vars, ws_vars, ex_vars, rl_vars, ps_positions, ps_before>>

(* The process dies: its memory is gone, the files stay as they are *)
PsCrash ==
    /\ ps_pc # "dead"
    /\ ps_pc' = "dead"
    /\ ps_positions' = EmptyMap
    /\ ps_saved' = FALSE
    /\ UNCHANGED <<rt_vars, ws_vars, ex_vars, rl_vars, ps_fs, ps_before>>

(* While no process runs, the file is damaged from outside *)
PsDamage ==
    /\ ps_pc = "dead"
    /\ ps_fs[StorePath].kind = "json"
    /\ ps_fs' = [ps_fs EXCEPT ![StorePath] = Garbage]
    /\ UNCHANGED <<rt_vars, ws_vars, ex_vars, rl_vars, ps_positions, ps_pc, ps_before, ps_saved>>

(* No process yet, and the directory as a first run finds it *)
PsInit ==
    /\ ps_positions = EmptyMap
    /\ ps_fs = [path \in Paths |-> Absent]
    /\ ps_pc = "dead"
    /\ ps_before = Absent
    /\ ps_saved = FALSE

(* The extreme-price runtime and the wallet balance. Money is in mills,   *)
(* sizes in units, so price * size is in mills.                           *)

MaxMarkets == 3

Markets == 1..MaxMarkets

BuyThreshold == 4
SellMultiplier == 2
MinSize == 5

(* portfolio_percent = 0.005: one part in PercentDivisor of the balance *)
PercentDivisor == 200

(* What the wallet holds when the process starts: 3 cents, 8 dollars. Both
   make balance / (PercentDivisor * price) a whole number or less than
   MinSize for every price of ExtremePrices. *)
Wallets == {30, 8000}

(* extreme_price of the markets the scan keeps: not above buy_threshold *)
ExtremePrices == {p \in {2, 4} : p <= BuyThreshold}

(* Best bid of a book read by should_exit and close_position: 0 for no bids *)
CapBids == {0, 4, 8}

NoBalance == -1
NoEntry == [market |-> 0, price |-> 0, size |-> 0]
NoExit == [market |-> 0, price |-> 0]

(* PolymarketConnection.get_balance in live mode: the cache when there is
   one, else the venue's answer (which is cached), else 0.0 when both the
   client and the RPC fallback fail. api is the wallet's balance or NoBalance
   for a failed request. *)
GetBalance(cache, api) ==
    IF cache # NoBalance THEN [balance |-> cache, cache |-> cache]
    ELSE IF api # NoBalance THEN [balance |-> api, cache |-> api]
    ELSE [balance |-> 0, cache |-> cache]

(* helpers.calculate_position_size *)
CalculatePositionSize(balance, price) ==
    IF price <= 0 THEN MinSize
    ELSE IF balance \div (PercentDivisor * price) >= MinSize
         THEN balance \div (PercentDivisor * price)
         ELSE MinSize

(* ExtremePriceStrategy.should_enter: False when the balance is below
   price * size or the book has no liquidity *)
ShouldEnter(balance, price, size, liquid) == ~(balance < price * size) /\ liquid

(* ExtremePriceStrategy.should_exit: the best bid reached the target *)
CapShouldExit(pos, bid) == bid > 0 /\ bid >= pos.price * SellMultiplier

RECURSIVE CapCost(_, _)
CapCost(positions, markets) ==
    IF markets = {} THEN 0
    ELSE LET m == CHOOSE x \in markets : TRUE
         IN positions[m].price * positions[m].size + CapCost(positions, markets \ {m})

(* entry price times size, summed over the open positions *)
CommittedCapital(positions) == CapCost(positions, DOMAIN positions)

(* scan_loop for one market of the scan: scan sizes the opportunity from the
   balance, the loop skips a seen or open token, marks it seen, asks
   should_enter, and enter_position submits the BUY. read1 and read2 say
   whether the balance request of scan and of should_enter succeed. *)
CapScanEnter(m, price, read1, read2, liquid) ==
    /\ cap_scan = NoEntry
    /\ m \notin cap_seen /\ m \notin DOMAIN cap_open
    /\ LET b1 == GetBalance(cap_cache, IF read1 THEN cap_wallet ELSE NoBalance)
           b2 == GetBalance(b1.cache, IF read2 THEN cap_wallet ELSE NoBalance)
           size == CalculatePositionSize(b1.balance, price)
       IN /\ cap_cache' = b2.cache
          /\ cap_scan' = IF ShouldEnter(b2.balance, price, size, liquid)
                         THEN [market |-> m, price |-> price, size |-> size]
                         ELSE NoEntry
    /\ cap_seen' = MarkSeen(cap_seen, m)
    /\ UNCHANGED <<beside_cap, cap_wallet, cap_open, cap_exit>>

(* BaseStrategy.enter_position after the await of the BUY. The venue fills
   no BUY the wallet cannot pay. *)
CapBuyDone(outcome) ==
    /\ cap_scan # NoEntry
    /\ outcome = "filled" => cap_wallet >= cap_scan.price * cap_scan.size
    /\ IF LegSuccess(ExecuteTrade(outcome))
       THEN /\ cap_open' = [m \in DOMAIN cap_open \cup {cap_scan.market} |->
                              IF m = cap_scan.market
                              THEN [price |-> cap_scan.price, size |-> cap_scan.size]
                              ELSE cap_open[m]]
            /\ cap_wallet' = cap_wallet - cap_scan.price * cap_scan.size
       ELSE UNCHANGED <<cap_open, cap_wallet>>
    /\ cap_scan' = NoEntry
    /\ UNCHANGED <<beside_cap, cap_cache, cap_seen, cap_exit>>

(* monitor_loop for one position: should_exit reads the book, exit_position
   calls close_position, which reads the book again and submits the SELL at
   the best bid (no order without a bid). *)
CapExitStart(m, seen_bid, sell_bid) ==
    /\ cap_exit = NoExit
    /\ m \in DOMAIN cap_open
    /\ CapShouldExit(cap_open[m], seen_bid)
    /\ cap_exit' = IF sell_bid = 0 THEN NoExit ELSE [market |-> m, price |-> sell_bid]
    /\ UNCHANGED <<beside_cap, cap_wallet, cap_cache, cap_open,
                   cap_seen, cap_scan>>

(* BaseStrategy.exit_position after the await of close_position *)
CapSellDone(outcome) ==
    /\ cap_exit # NoExit
    /\ IF LegSuccess(ExecuteTrade(outcome))
       THEN /\ cap_open' = [m \in DOMAIN cap_open \ {cap_exit.market} |-> cap_open[m]]
            /\ cap_wallet' = cap_wallet + cap_exit.price * cap_open[cap_exit.market].size
       ELSE UNCHANGED <<cap_open, cap_wallet>>
    /\ cap_exit' = NoExit
    /\ UNCHANGED <<beside_cap, cap_cache, cap_seen, cap_scan>>

(* The runtime as constructed, the connection with no balance cached *)
CapInit(wallet) ==
    /\ cap_wallet = wallet
    /\ cap_cache = NoBalance
    /\ cap_open = <<>>
    /\ cap_seen = {}
    /\ cap_scan = NoEntry
    /\ cap_exit = NoExit

CapIdle == CapInit(CHOOSE w \in Wallets : TRUE)

(* scan_loop and monitor_loop of BaseStrategy: the while, the try around the
   iteration, the sleeps *)

MaxIterations == 3

Loops == {"scan", "monitor"}

ScanIntervals == {10, 30, 300}
MonitorInterval == 30
ErrorBackoff == 60

(* The calls of an iteration that can raise; "none" when none did *)
Raisers(l) ==
    IF l = "scan" THEN {"none", "scan", "should_enter", "enter_position"}
    ELSE {"none", "should_exit", "exit_position"}

(* Where the iteration leaves the loop: an Exception of any call of the try
   block is caught by 'except Exception', which logs and sleeps; without one
   the loop sleeps its interval. *)
AfterIterationUncaught(l, raised_by, interval) ==
    IF raised_by # "none" THEN [pc |-> "done", secs |-> 0]
    ELSE [pc |-> "sleep", secs |-> IF l = "scan" THEN interval ELSE MonitorInterval]

AfterIteration(l, raised_by, interval) ==
    IF raised_by # "none" THEN [pc |-> "sleep", secs |-> ErrorBackoff]
    ELSE [pc |-> "sleep", secs |-> IF l = "scan" THEN interval ELSE MonitorInterval]

(* The try block of one iteration runs to its end or to the call that raises *)
LoopIteration(l, raised_by) ==
    /\ lp_pc[l] = "body"
    /\ lp_pc' = [lp_pc EXCEPT ![l] = AfterIteration(l, raised_by, lp_interval).pc]
    /\ lp_sleep' = [lp_sleep EXCEPT ![l] = AfterIteration(l, raised_by, lp_interval).secs]
    /\ lp_last' = [lp_last EXCEPT ![l] = raised_by]
    /\ UNCHANGED <<beside_lp, lp_running, lp_interval, lp_iters>>

(* The sleep returns and 'while self.running' is evaluated *)
LoopWake(l) ==
    /\ lp_pc[l] = "sleep"
    /\ lp_iters[l] < MaxIterations
    /\ lp_sleep' = [lp_sleep EXCEPT ![l] = 0]
    /\ IF lp_running
       THEN /\ lp_pc' = [lp_pc EXCEPT ![l] = "body"]
            /\ lp_iters' = [lp_iters EXCEPT ![l] = @ + 1]
       ELSE /\ lp_pc' = [lp_pc EXCEPT ![l] = "done"]
            /\ UNCHANGED lp_iters
    /\ UNCHANGED <<beside_lp, lp_running, lp_interval, lp_last>>

(* BaseStrategy.stop *)
LoopStop ==
    /\ lp_running
    /\ lp_running' = FALSE
    /\ UNCHANGED <<beside_lp, lp_interval, lp_pc, lp_sleep, lp_last, lp_iters>>

(* BaseStrategy.start has set running and both loops are in their first
   iteration *)
LoopInit(interval) ==
    /\ lp_running = TRUE
    /\ lp_interval = interval
    /\ lp_pc = [l \in Loops |-> "body"]
    /\ lp_sleep = [l \in Loops |-> 0]
    /\ lp_last = [l \in Loops |-> "none"]
    /\ lp_iters = [l \in Loops |-> 1]

LoopIdle == LoopInit(CHOOSE i \in ScanIntervals : TRUE)


(* TradeExecutor over the connection's client, live and in dry-run mode *)

(* PolymarketConnection._init_client: the DummyClient in dry-run mode, the
   CLOB client otherwise *)
ClientOf(dry_run) == IF dry_run THEN "dummy" ELSE "clob"

(* DummyClient has get_address, get_balance_allowance and get_order_book *)
ClientCanPost(client) == client = "clob"

LimitPrices == {400, 500}

MaxOrders == 3

NoTrade == [token |-> 0, side |-> "none", price |-> 0, result |-> "none"]

(* TradeExecutor.execute_trade: create_order and post_order on the client;
   the response when it reports success, None when it does not or when
   anything in the try block raises (as the missing create_order of the
   DummyClient does). *)
ExecuteTradeOn(client, outcome) ==
    IF ClientCanPost(client) THEN ExecuteTrade(outcome) ELSE "none"

(* One call of execute_trade, as enter_position, a rollback or
   close_position makes it *)
DrExecuteTrade(token, side, price, outcome) ==
    /\ Cardinality(dr_posted) < MaxOrders
    /\ side = "SELL" => token \in DOMAIN dr_held
    /\ LET client == ClientOf(dr_dry_run)
           result == ExecuteTradeOn(client, outcome)
       IN /\ dr_posted' = IF ClientCanPost(client)
                          THEN dr_posted \cup {[token |-> token, side |-> side, price |-> price]}
                          ELSE dr_posted
          /\ dr_held' = IF LegSuccess(result) /\ side = "BUY"
                        THEN [t \in DOMAIN dr_held \cup {token} |->
                                IF t = token THEN price ELSE dr_held[t]]
                        ELSE IF LegSuccess(result)
                        THEN [t \in DOMAIN dr_held \ {token} |-> dr_held[t]]
                        ELSE dr_held
          /\ dr_last' = [token |-> token, side |-> side, price |-> price, result |-> result]
    /\ UNCHANGED <<beside_dr, dr_dry_run>>

(* The connection and the executor as constructed *)
DrInit(dry_run) ==
    /\ dr_dry_run = dry_run
    /\ dr_held = <<>>
    /\ dr_posted = {}
    /\ dr_last = NoTrade

DrIdle == DrInit(FALSE)


(* The two-leg detectors and the acceptance of a two-leg entry. An average
   price is the exact quotient total_cost / filled_size, kept as the pair. *)

Payoff == 1000
MinProfitThreshold == 20
MinAnnualizedRoi == 150
DaysPerYear == 365
CheckInvalidRisk == TRUE

(* Prices and sizes of the levels of an order book *)
AskPrices == {400, 500}
LevelSizes == {0, 5, 10}
Levels == [price : AskPrices, size : LevelSizes]

MaxDepth == 2

(* The asks of a book, cheapest first, and the bids, dearest first *)
AskLadders ==
    {l \in UNION {[1..n -> Levels] : n \in 0..MaxDepth} :
        \A i \in 1..(Len(l) - 1) : l[i].price <= l[i + 1].price}

BidLadders ==
    {l \in UNION {[1..n -> Levels] : n \in 0..MaxDepth} :
        \A i \in 1..(Len(l) - 1) : l[i].price >= l[i + 1].price}

NoFill == [total_cost |-> 0, filled_size |-> 0, requested_size |-> 0, fully_filled |-> FALSE]

FillAmountWholeLevel(remaining_size, order_size) == order_size

FillAmount(remaining_size, order_size) ==
    IF remaining_size < order_size THEN remaining_size ELSE order_size

(* The for loop of _simulate_fill from the i-th order on *)
RECURSIVE FillFrom(_, _, _, _, _)
FillFrom(orders, i, remaining_size, total_cost, filled_size) ==
    IF i > Len(orders)
    THEN [total_cost |-> total_cost, filled_size |-> filled_size, remaining |-> remaining_size]
    ELSE IF orders[i].size <= 0
    THEN FillFrom(orders, i + 1, remaining_size, total_cost, filled_size)
    ELSE LET fill_amount == FillAmount(remaining_size, orders[i].size)
         IN IF remaining_size - fill_amount <= 0
            THEN [total_cost |-> total_cost + fill_amount * orders[i].price,
                  filled_size |-> filled_size + fill_amount,
                  remaining |-> remaining_size - fill_amount]
            ELSE FillFrom(orders, i + 1, remaining_size - fill_amount,
                          total_cost + fill_amount * orders[i].price,
                          filled_size + fill_amount)

(* CalendarArbitrageStrategy._simulate_fill over the side of the book the
   order consumes; NoFill stands for None. avg_price is total_cost over
   filled_size. *)
SimulateFill(orders, size) ==
    IF orders = <<>> THEN NoFill
    ELSE LET r == FillFrom(orders, 1, size, 0, 0)
         IN IF r.filled_size = 0 THEN NoFill
            ELSE [total_cost |-> r.total_cost, filled_size |-> r.filled_size,
                  requested_size |-> size, fully_filled |-> r.remaining <= 0]

NoArOpp == [price1 |-> 0, price2 |-> 0, size |-> 0, total_cost |-> 0, expected_profit |-> 0]
NoArPos == [cost1 |-> 0, size1 |-> 1, cost2 |-> 0, size2 |-> 1]
NoFills == <<NoFill, NoFill>>

(* min_profit_threshold + 2 * estimated_fee, taken from the payoff *)
CostThreshold == Payoff - (MinProfitThreshold + 2 * EstimatedFee)

(* The markets of a cluster, as far as _has_invalid_risk reads them: the
   number of outcomes, and whether the question or the description holds
   the word 'invalid' *)
CalendarMarkets == [outcomes : {2, 3}, mentions_invalid : BOOLEAN]

(* The days until the late market closes, as _days_until_close returns them *)
DaysUntilClose == {30, 365}

(* CalendarArbitrageStrategy._has_invalid_risk *)
HasInvalidRisk(market) ==
    IF ~CheckInvalidRisk THEN FALSE
    ELSE IF market.outcomes > 2 THEN TRUE
    ELSE market.mentions_invalid

RoiAtLeastMinNotAnnualized(profit, days) == profit >= MinAnnualizedRoi

(* _calculate_annualized_roi(profit, days) set against min_annualized_roi:
   'annualized_roi < self.min_annualized_roi' is the negation *)
RoiAtLeastMin(profit, days) ==
    IF days <= 0 THEN 0 >= MinAnnualizedRoi
    ELSE profit * DaysPerYear >= MinAnnualizedRoi * days

(* CalendarArbitrageStrategy.scan for one adjacent pair (early, late): the
   best asks of the early NO and the late YES token, the two markets and
   the days until the late one closes *)
CalendarScanPair(ask_no_early, ask_yes_late, early, late, days) ==
    LET total_cost == ask_no_early.price + ask_yes_late.price
        size_cap == IF ask_no_early.size < ask_yes_late.size
                    THEN ask_no_early.size ELSE ask_yes_late.size
    IN IF /\ total_cost < CostThreshold
          /\ ~(HasInvalidRisk(early) \/ HasInvalidRisk(late))
          /\ size_cap > 0
          /\ RoiAtLeastMin(Payoff - total_cost, days)
       THEN [price1 |-> ask_no_early.price, price2 |-> ask_yes_late.price,
             size |-> IF size_cap < 10 THEN (IF size_cap < 1 THEN 1 ELSE size_cap) ELSE 10,
             total_cost |-> total_cost,
             expected_profit |-> Payoff - total_cost]
       ELSE NoArOpp

(* CrossPlatformArbitrageStrategy._evaluate_arbitrage over the best asks of
   the four books *)
EvaluateArbitrage(poly_yes, poly_no, kalshi_yes, kalshi_no) ==
    LET strategy1_cost == poly_yes + kalshi_no
        strategy1_profit == Payoff - strategy1_cost - 2 * EstimatedFee
        strategy2_cost == poly_no + kalshi_yes
        strategy2_profit == Payoff - strategy2_cost - 2 * EstimatedFee
    IN IF strategy1_profit > MinProfitThreshold /\ strategy1_profit > strategy2_profit
       THEN [price1 |-> poly_yes, price2 |-> kalshi_no, size |-> CrossSize,
             total_cost |-> strategy1_cost, expected_profit |-> strategy1_profit]
       ELSE IF strategy2_profit > MinProfitThreshold
       THEN [price1 |-> poly_no, price2 |-> kalshi_yes, size |-> CrossSize,
             total_cost |-> strategy2_cost, expected_profit |-> strategy2_profit]
       ELSE NoArOpp

(* enter_position of the calendar strategy: 'total_cost_with_slippage >=
   1.0 - min_profit_total' over the two average prices *)
SlippageKillsProfitAtScan(opp, fill_no, fill_yes) == opp.total_cost >= CostThreshold

SlippageKillsProfit(opp, fill_no, fill_yes) ==
    fill_no.total_cost * fill_yes.filled_size + fill_yes.total_cost * fill_no.filled_size
        >= CostThreshold * fill_no.filled_size * fill_yes.filled_size

ArCalendarScan(ask_no_early, ask_yes_late, early, late, days) ==
    /\ ar_kind = "calendar"
    /\ ar_fills = NoFills
    /\ ar_opp' = CalendarScanPair(ask_no_early, ask_yes_late, early, late, days)
    /\ UNCHANGED <<beside_ar, ar_kind, ar_fills, ar_pos>>

ArCrossEvaluate(poly_yes, poly_no, kalshi_yes, kalshi_no) ==
    /\ ar_kind = "cross"
    /\ ar_fills = NoFills
    /\ ar_opp' = EvaluateArbitrage(poly_yes, poly_no, kalshi_yes, kalshi_no)
    /\ UNCHANGED <<beside_ar, ar_kind, ar_fills, ar_pos>>

(* CalendarArbitrageStrategy.enter_position up to the gather, over the books
   as they are at the entry: the fills are simulated, the entry is given up
   when a leg cannot be filled or the slippage kills the profit, and the two
   BUYs are submitted at the average prices. *)
ArCalendarEnter(asks_no, asks_yes) ==
    /\ ar_kind = "calendar"
    /\ ar_opp # NoArOpp /\ ar_fills = NoFills
    /\ LET fill_no == SimulateFill(asks_no, ar_opp.size)
           fill_yes == SimulateFill(asks_yes, ar_opp.size)
       IN IF /\ fill_no # NoFill /\ fill_yes # NoFill
             /\ fill_no.fully_filled /\ fill_yes.fully_filled
             /\ ~SlippageKillsProfit(ar_opp, fill_no, fill_yes)
          THEN ar_fills' = <<fill_no, fill_yes>> /\ UNCHANGED ar_opp
          ELSE ar_fills' = NoFills /\ ar_opp' = NoArOpp
    /\ UNCHANGED <<beside_ar, ar_kind, ar_pos>>

(* ... and after it: with both BUYs filled the position is recorded with the
   two average prices as entry prices *)
ArCalendarFilled(o1, o2) ==
    /\ ar_kind = "calendar"
    /\ ar_fills # NoFills
    /\ IF LegSuccess(ExecuteTrade(o1)) /\ LegSuccess(ExecuteTrade(o2))
       THEN ar_pos' = [cost1 |-> ar_fills[1].total_cost, size1 |-> ar_fills[1].filled_size,
                       cost2 |-> ar_fills[2].total_cost, size2 |-> ar_fills[2].filled_size]
       ELSE UNCHANGED ar_pos
    /\ ar_opp' = NoArOpp
    /\ ar_fills' = NoFills
    /\ UNCHANGED <<beside_ar, ar_kind>>

(* CrossPlatformArbitrageStrategy.enter_position, live mode: the position is
   the opportunity, with its two prices *)
ArCrossEnter(o1, o2) ==
    /\ ar_kind = "cross"
    /\ ar_opp # NoArOpp
    /\ IF LegSuccess(ExecuteTrade(o1)) /\ LegSuccess(KalshiCreateOrder(o2))
       THEN ar_pos' = [cost1 |-> ar_opp.price1, size1 |-> 1,
                       cost2 |-> ar_opp.price2, size2 |-> 1]
       ELSE UNCHANGED ar_pos
    /\ ar_opp' = NoArOpp
    /\ UNCHANGED <<beside_ar, ar_kind, ar_fills>>

ArInit(kind) ==
    /\ ar_kind = kind
    /\ ar_opp = NoArOpp
    /\ ar_fills = NoFills
    /\ ar_pos = NoArPos

ArIdle == ArInit("calendar")


(* _simulate_fill as a function of the book, the side and the size *)

RequestSizes == {1, 10, 15}

Books == [asks : AskLadders, bids : BidLadders]

NotCalled == [total_cost |-> -1, filled_size |-> -1, requested_size |-> -1,
              fully_filled |-> FALSE]

(* 'book.get("asks" if side == "BUY" else "bids", [])' *)
BookSide(book, side) == IF side = "BUY" THEN book.asks ELSE book.bids

FlSimulate ==
    /\ fl_out = NotCalled
    /\ fl_out' = SimulateFill(BookSide(fl_book, fl_call.side), fl_call.size)
    /\ UNCHANGED <<beside_fl, fl_book, fl_call>>

FlInit(book, side, size) ==
    /\ fl_book = book
    /\ fl_call = [side |-> side, size |-> size]
    /\ fl_out = NotCalled

FlIdle == FlInit([asks |-> <<>>, bids |-> <<>>], "BUY", CHOOSE n \in RequestSizes : TRUE)


(* The health check of WebSocketManager over a clock. Time is counted in
   ticks of 30 s, the period at which start_reconnect_loop checks. *)

MaxClock == 8

(* max_silence=90 of the reconnect loop's check, in ticks *)
MaxSilence == 3

(* WebSocketManager.is_healthy *)
IsHealthyAt(connected, last_message, now, max_silence) ==
    IF ~connected THEN FALSE
    ELSE IF last_message = 0 THEN TRUE
    ELSE now - last_message < max_silence

(* connect() got a socket: last_message_time is left as it is *)
HlConnect ==
    /\ ~hl_connected
    /\ hl_connected' = TRUE
    /\ hl_since' = hl_now
    /\ UNCHANGED <<beside_hl, hl_now, hl_last>>

(* receive_data got a message *)
HlMessage ==
    /\ hl_connected
    /\ hl_last' = hl_now
    /\ UNCHANGED <<beside_hl, hl_now, hl_connected, hl_since>>

(* close(), or a ConnectionClosed in receive_data *)
HlClose ==
    /\ hl_connected
    /\ hl_connected' = FALSE
    /\ UNCHANGED <<beside_hl, hl_now, hl_since, hl_last>>

HlTick ==
    /\ hl_now < MaxClock
    /\ hl_now' = hl_now + 1
    /\ UNCHANGED <<beside_hl, hl_connected, hl_since, hl_last>>

(* The manager as constructed; the clock never reads 0 *)
HlInit ==
    /\ hl_now = 1
    /\ hl_connected = FALSE
    /\ hl_since = 0
    /\ hl_last = 0

(* The positions the executor tracks beside those of the strategy. The
   strategy is the spread runtime (BaseStrategy.enter_position and
   exit_position) or the calendar runtime. *)

(* TradeExecutor.execute_trade on open_positions: a BUY that succeeded is
   tracked under its token; a SELL changes nothing *)
TrackTrade(tracked, token, side, price, result) ==
    IF LegSuccess(result) /\ side = "BUY" THEN MapPut(tracked, token, price) ELSE tracked

(* TradeExecutor.close_position with a price: None for a token that is not
   tracked; the token is deleted when its SELL succeeded *)
ClosePositionResult(tracked, token, outcome) ==
    IF token \notin DOMAIN tracked THEN "none" ELSE ExecuteTrade(outcome)

ClosePosition(tracked, token, outcome) ==
    IF LegSuccess(ClosePositionResult(tracked, token, outcome))
    THEN MapDel(tracked, token) ELSE tracked

(* The (NO early, YES late) pairs of a calendar entry *)
CalendarPairs == {pair \in Tokens \X Tokens : IsNoToken(pair[1]) /\ ~IsNoToken(pair[2])}

(* BaseStrategy.enter_position *)
TkEnter(token, price, outcome) ==
    /\ strategy = "spread"
    /\ token \notin tk_strategy
    /\ tk_executor' = TrackTrade(tk_executor, token, "BUY", price, ExecuteTrade(outcome))
    /\ tk_strategy' = IF LegSuccess(ExecuteTrade(outcome))
                      THEN tk_strategy \cup {token} ELSE tk_strategy
    /\ tk_last' = "entry"
    /\ UNCHANGED beside_tk

(* BaseStrategy.exit_position *)
TkExit(token, outcome) ==
    /\ strategy = "spread"
    /\ token \in tk_strategy
    /\ tk_executor' = ClosePosition(tk_executor, token, outcome)
    /\ tk_strategy' = IF LegSuccess(ClosePositionResult(tk_executor, token, outcome))
                      THEN tk_strategy \ {token} ELSE tk_strategy
    /\ tk_last' = "exit"
    /\ UNCHANGED beside_tk

(* CalendarArbitrageStrategy.enter_position from the gather on: the two BUYs,
   then the position, or the rollback SELL of the leg that filled alone *)
TkCalendarEnter(pair, price_no, price_yes, o1, o2, rollback) ==
    /\ strategy = "calendar"
    /\ ~({pair[1], pair[2]} \subseteq tk_strategy)
    /\ LET no_ok == LegSuccess(ExecuteTrade(o1))
           yes_ok == LegSuccess(ExecuteTrade(o2))
           bought == TrackTrade(TrackTrade(tk_executor, pair[1], "BUY", price_no,
                                           ExecuteTrade(o1)),
                                pair[2], "BUY", price_yes, ExecuteTrade(o2))
       IN IF no_ok /\ yes_ok
          THEN /\ tk_executor' = bought
               /\ tk_strategy' = tk_strategy \cup {pair[1], pair[2]}
               /\ tk_last' = "entry"
          ELSE IF no_ok \/ yes_ok
          THEN /\ tk_executor' = TrackTrade(bought, RollbackToken(no_ok, pair), "SELL",
                                            PennyPrice, ExecuteTrade(rollback))
               /\ tk_strategy' = tk_strategy
               /\ tk_last' = "rollback"
          ELSE /\ tk_executor' = bought
               /\ tk_strategy' = tk_strategy
               /\ tk_last' = "entry"
    /\ UNCHANGED beside_tk

(* CalendarArbitrageStrategy.exit_position: the two SELLs through
   execute_trade, the position popped when both succeeded *)
TkCalendarExit(pair, bid_no, bid_yes, o1, o2) ==
    /\ strategy = "calendar"
    /\ {pair[1], pair[2]} \subseteq tk_strategy
    /\ tk_executor' = TrackTrade(TrackTrade(tk_executor, pair[1], "SELL",
                                            CalendarExitPrice(bid_no), ExecuteTrade(o1)),
                                 pair[2], "SELL", CalendarExitPrice(bid_yes),
                                 ExecuteTrade(o2))
    /\ tk_strategy' = IF LegSuccess(ExecuteTrade(o1)) /\ LegSuccess(ExecuteTrade(o2))
                      THEN tk_strategy \ {pair[1], pair[2]} ELSE tk_strategy
    /\ tk_last' = "exit"
    /\ UNCHANGED beside_tk

TkIdle ==
    /\ tk_executor = EmptyMap
    /\ tk_strategy = {}
    /\ tk_last = "none"

(* No method is called on its own *)
NoArgs == <<>>
NotReturned == <<>>
Returned(value) == <<value>>
Result == call_result[1]
CallIdle == call_args = NoArgs /\ call_result = NotReturned

ExIdle == CapIdle /\ LoopIdle /\ DrIdle /\ ArIdle /\ FlIdle /\ HlInit /\ CallIdle /\ TkIdle

(* The utilities left alone *)
UtilIdle == RlInit(SingleTier) /\ PsInit /\ ExIdle

----------------------------------------------------------------------------
(* The strategy runtime *)

(* The streamers as constructed *)
WsInit ==
    /\ ws = 0
    /\ is_connected = FALSE
    /\ running = FALSE
    /\ subscribed_tokens = {}
    /\ tokens_to_monitor = {}
    /\ last_message_time = "never"
    /\ reconnect_delay = 1
    /\ reconnect_count = 0
    /\ run_pc = "idle"
    /\ link_up = FALSE
    /\ server_subs = {}
    /\ ws_op = "idle"
    /\ held_before = {}

WsIdle == streamer = "core" /\ WsInit

RuntimeInit ==
    /\ strategy \in StrategyKinds
    /\ restarts = 0
    /\ next_id = 1
    /\ open_positions = <<>>
    /\ forced = {}
    /\ seen = {}
    /\ pm_positions = EmptyMap
    /\ disk = EmptyMap
    /\ scan_pc = "sleep"
    /\ cur_opp = NoOpp
    /\ enter_results = <<>>
    /\ enter_orders = <<>>
    /\ rollback_result = "idle"
    /\ mon_pc = "sleep"
    /\ snapshot = <<>>
    /\ mon_i = 0
    /\ exit_pos = NoPos
    /\ exit_results = <<>>
    /\ exit_orders = <<>>
    /\ sold_legs = {}
    /\ pass_pending = {}

Init == RuntimeInit /\ WsIdle /\ UtilIdle

Next ==
    \/ \E opp \in Opportunities, sim \in {"ok", "abort"} : ScanEnter(opp, sim)
    \/ \E opp \in Opportunities : CrossEnter(opp)
    \/ \E i \in 1..2, o \in VenueOutcomes : EnterLegDone(i, o)
    \/ EnterResumeSingle
    \/ \E b \in BidLevels : EnterResumeCalendar(b)
    \/ EnterResumeCross
    \/ \E o \in VenueOutcomes : RollbackDone(o)
    \/ \E w \in BOOLEAN : EnterStore1(w)
    \/ \E w \in BOOLEAN : EnterStore2(w)
    \/ MonitorSnapshot
    \/ \E a1, a2 \in AskReads, b \in BidLevels, to \in BOOLEAN :
          MonitorCheckSpread(a1, b, to, a2)
    \/ \E bids1, bids2 \in BidLevels \X BidLevels : MonitorCheckCalendar(bids1, bids2)
    \/ \E i \in 1..2, o \in VenueOutcomes : ExitLegDone(i, o)
    \/ ExitResume
    \/ \E w \in BOOLEAN : ExitUnstore1(w)
    \/ \E w \in BOOLEAN : ExitUnstore2(w)
    \/ \E t \in Tokens, b \in BidLevels : HandlePriceUpdate(t, b)
    \/ Restart
    \/ \E o1, o2 \in VenueOutcomes : Shutdown(o1, o2)

Spec == Init /\ [][Next]_vars

----------------------------------------------------------------------------
(* The streamers on their own, beside an idle runtime *)

(* The spread runtime as one entry of token t over a best bid b leaves it:
   the position in open_positions and in the store, both loops asleep. *)
RuntimeHolding(t, b) ==
    /\ strategy = "spread"
    /\ restarts = 0
    /\ next_id = 2
    /\ open_positions = DictSet(<<>>, t, [NewPos(SpreadOpp(t, b)) EXCEPT !.id = 1])
    /\ forced = {}
    /\ seen = {SpreadOpp(t, b).key}
    /\ pm_positions = MapPut(EmptyMap, t,
                             StoreRecord(t, SpreadOpp(t, b).prices[1],
                                         DictGet(open_positions, t)))
    /\ disk = Dump(pm_positions)
    /\ scan_pc = "sleep"
    /\ cur_opp = NoOpp
    /\ enter_results = <<>>
    /\ enter_orders = <<>>
    /\ rollback_result = "idle"
    /\ mon_pc = "sleep"
    /\ snapshot = <<>>
    /\ mon_i = 0
    /\ exit_pos = NoPos
    /\ exit_results = <<>>
    /\ exit_orders = <<>>
    /\ sold_legs = {}
    /\ pass_pending = {}

(* The token and the best bid of the entry that RuntimeHolding starts from *)
HeldToken == CHOOSE t \in Tokens : TRUE

HeldBid == CHOOSE b \in BidLevels : b > 0 /\ b < MaxPrice

WsInitAll ==
    /\ streamer \in StreamerKinds
    /\ WsInit
    /\ UtilIdle
    /\ \/ RuntimeInit /\ strategy = "spread"
       \/ RuntimeHolding(HeldToken, HeldBid)

WsNext ==
    \/ \E ok \in BOOLEAN : WsConnect(ok)
    \/ \E T \in (SUBSET Tokens) \ {{}} : WsSubscribe(T)
    \/ LinkDrop
    \/ \E msg \in Messages : WsReceive(msg)
    \/ TimePasses
    \/ WsStartReconnectLoop
    \/ WsReconnectClose
    \/ \E ok \in BOOLEAN : WsReconnectConnect(ok)
    \/ WsLoopExit
    \/ WsStop
    \/ \E T \in (SUBSET Tokens) \ {{}} : CalAddTokens(T)
    \/ CalRun
    \/ CalLoop
    \/ \E ok \in BOOLEAN : CalConnectDone(ok)
    \/ CalSubscribe
    \/ \E msg \in Messages, cb \in CallbackOutcomes : CalReceive(msg, cb)
    \/ \E clean \in BOOLEAN : CalListenEnd(clean)
    \/ CalStop
    \/ \E o1, o2 \in VenueOutcomes : Shutdown(o1, o2)

SpecWS == WsInitAll /\ [][WsNext]_vars

----------------------------------------------------------------------------
(* The rate limiter on its own, beside an idle runtime and an idle streamer *)

RlInitAll ==
    /\ RuntimeInit /\ strategy = "spread"
    /\ WsIdle
    /\ \E tiers \in TierLists : RlInit(tiers)
    /\ PsInit
    /\ ExIdle

RlNext ==
    \/ \E c \in Callers : RlEnter(c)
    \/ \E c \in Callers : RlLockGranted(c)
    \/ \E c \in Callers : RlWake(c)
    \/ RlTick

SpecRL == RlInitAll /\ [][RlNext]_vars

----------------------------------------------------------------------------
(* The position store on its own *)

PsInitAll ==
    /\ RuntimeInit /\ strategy = "spread"
    /\ WsIdle
    /\ RlInit(SingleTier)
    /\ PsInit
    /\ ExIdle

PsNext ==
    \/ \E rename_ok \in BOOLEAN : PsStart(rename_ok)
    \/ \E t \in Tokens : PsAdd(t, HeldBid)
    \/ \E t \in Tokens : PsRemove(t)
    \/ \E t \in Tokens, st \in StatusValues : PsUpdate(t, st)
    \/ PsClear
    \/ PsOpenTmp
    \/ \E ok \in BOOLEAN : PsWriteTmp(ok)
    \/ \E ok \in BOOLEAN : PsReplace(ok)
    \/ PsCrash
    \/ PsDamage

SpecPS == PsInitAll /\ [][PsNext]_vars

----------------------------------------------------------------------------
(* The extreme-price runtime on its own *)

CapInitAll ==
    /\ RuntimeInit /\ strategy = "spread"
    /\ CallIdle
    /\ TkIdle
    /\ WsIdle
    /\ RlInit(SingleTier)
    /\ PsInit
    /\ \E w \in Wallets : CapInit(w)
    /\ LoopIdle
    /\ DrIdle
    /\ ArIdle
    /\ FlIdle
    /\ HlInit

CapNext ==
    \/ \E m \in Markets, price \in ExtremePrices, read1, read2, liquid \in BOOLEAN :
          CapScanEnter(m, price, read1, read2, liquid)
    \/ \E outcome \in VenueOutcomes : CapBuyDone(outcome)
    \/ \E m \in Markets, seen_bid, sell_bid \in CapBids : CapExitStart(m, seen_bid, sell_bid)
    \/ \E outcome \in VenueOutcomes : CapSellDone(outcome)

SpecCap == CapInitAll /\ [][CapNext]_vars

----------------------------------------------------------------------------
(* The two loops on their own *)

LoopInitAll ==
    /\ RuntimeInit /\ strategy = "spread"
    /\ CallIdle
    /\ TkIdle
    /\ WsIdle
    /\ RlInit(SingleTier)
    /\ PsInit
    /\ CapIdle
    /\ DrIdle
    /\ ArIdle
    /\ FlIdle
    /\ HlInit
    /\ \E interval \in ScanIntervals : LoopInit(interval)

LoopNext ==
    \/ \E l \in Loops : \E raised_by \in Raisers(l) : LoopIteration(l, raised_by)
    \/ \E l \in Loops : LoopWake(l)
    \/ LoopStop

SpecLoop == LoopInitAll /\ [][LoopNext]_vars

----------------------------------------------------------------------------
(* The executor on its own *)

DrInitAll ==
    /\ RuntimeInit /\ strategy = "spread"
    /\ CallIdle
    /\ TkIdle
    /\ WsIdle
    /\ RlInit(SingleTier)
    /\ PsInit
    /\ CapIdle
    /\ LoopIdle
    /\ ArIdle
    /\ FlIdle
    /\ HlInit
    /\ \E dry_run \in BOOLEAN : DrInit(dry_run)

DrNext ==
    \E token \in Tokens, side \in {"BUY", "SELL"}, price \in LimitPrices,
       outcome \in VenueOutcomes : DrExecuteTrade(token, side, price, outcome)

SpecDry == DrInitAll /\ [][DrNext]_vars

----------------------------------------------------------------------------
(* The two-leg detectors and entries on their own *)

ArInitAll ==
    /\ RuntimeInit /\ strategy = "spread"
    /\ CallIdle
    /\ TkIdle
    /\ WsIdle
    /\ RlInit(SingleTier)
    /\ PsInit
    /\ CapIdle
    /\ LoopIdle
    /\ DrIdle
    /\ FlIdle
    /\ HlInit
    /\ \E kind \in {"calendar", "cross"} : ArInit(kind)

ArNext ==
    \/ \E a1, a2 \in Levels, early, late \in CalendarMarkets, days \in DaysUntilClose :
          ArCalendarScan(a1, a2, early, late, days)
    \/ \E py, pn, ky, kn \in AskPrices : ArCrossEvaluate(py, pn, ky, kn)
    \/ \E l1, l2 \in AskLadders : ArCalendarEnter(l1, l2)
    \/ \E o1, o2 \in VenueOutcomes : ArCalendarFilled(o1, o2)
    \/ \E o1, o2 \in VenueOutcomes : ArCrossEnter(o1, o2)

SpecArb == ArInitAll /\ [][ArNext]_vars

----------------------------------------------------------------------------
(* The calendar scan of one adjacent pair on its own *)

ScanArgs ==
    [ask_no_early : Levels, ask_yes_late : Levels,
     early : CalendarMarkets, late : CalendarMarkets, days : DaysUntilClose]

ScanApply ==
    /\ call_result = NotReturned
    /\ call_result' = Returned(CalendarScanPair(call_args.ask_no_early,
                                                call_args.ask_yes_late, call_args.early,
                                                call_args.late, call_args.days))
    /\ UNCHANGED <<beside_call, call_args>>

ScanInitAll ==
    /\ RuntimeInit /\ strategy = "calendar"
    /\ WsIdle
    /\ RlInit(SingleTier)
    /\ PsInit
    /\ CapIdle /\ LoopIdle /\ DrIdle /\ ArIdle /\ FlIdle /\ HlInit /\ TkIdle
    /\ call_args \in ScanArgs
    /\ call_result = NotReturned

ScanNext == ScanApply

SpecScan == ScanInitAll /\ [][ScanNext]_vars

----------------------------------------------------------------------------
(* should_exit of the calendar strategy on its own *)

ExitCosts == {800, 900}
ExitBids == {0, 380, 390, 400, 425, 450}

ExitArgs == [total_cost : ExitCosts, bid_no : ExitBids, bid_yes : ExitBids]

ExitApply ==
    /\ call_result = NotReturned
    /\ call_result' = Returned(ShouldExitCalendar([total_cost |-> call_args.total_cost],
                                                  call_args.bid_no, call_args.bid_yes))
    /\ UNCHANGED <<beside_call, call_args>>

ExitInitAll ==
    /\ RuntimeInit /\ strategy = "calendar"
    /\ WsIdle
    /\ RlInit(SingleTier)
    /\ PsInit
    /\ CapIdle /\ LoopIdle /\ DrIdle /\ ArIdle /\ FlIdle /\ HlInit /\ TkIdle
    /\ call_args \in ExitArgs
    /\ call_result = NotReturned

ExitNext == ExitApply

SpecExit == ExitInitAll /\ [][ExitNext]_vars

----------------------------------------------------------------------------
(* The extreme-price scan of one market on its own. Prices are in
   thousandths, as BuyThreshold is. *)

(* high_threshold=0.99 of the scan's call of find_extreme_prices *)
HighThreshold == 990

(* min_hours_until_close of ExtremePriceStrategy *)
MinHoursUntilClose == 1

QuotedPrices == {2, 4, 5, 500, 996, 998}
HoursUntilClose == {0, 1, 24}

NoExtreme == [side |-> "none", price |-> 0]

(* The time_filter of MarketScanner.filter_markets, max_hours being infinite *)
TimeFilter(hours) == MinHoursUntilClose <= hours

(* MarketScanner.find_extreme_prices for one market: what it appends for
   it, NoExtreme when it appends nothing *)
FindExtremePrices(yes_price, no_price, low_threshold, high_threshold) ==
    IF yes_price <= low_threshold \/ yes_price >= high_threshold
    THEN [side |-> "YES", price |-> yes_price]
    ELSE IF no_price <= low_threshold \/ no_price >= high_threshold
    THEN [side |-> "NO", price |-> no_price]
    ELSE NoExtreme

(* ExtremePriceStrategy.scan for one market with its two token ids: the
   opportunity it appends, named by the side whose token it takes, or
   NoExtreme *)
ExtremeScanMarket(yes_price, no_price, hours) ==
    IF ~TimeFilter(hours) THEN NoExtreme
    ELSE LET market == FindExtremePrices(yes_price, no_price, BuyThreshold, HighThreshold)
         IN IF market = NoExtreme THEN NoExtreme
            ELSE IF market.price > BuyThreshold THEN NoExtreme
            ELSE market

ExtremeArgs == [yes_price : QuotedPrices, no_price : QuotedPrices, hours : HoursUntilClose]

ExtremeApply ==
    /\ call_result = NotReturned
    /\ call_result' = Returned(ExtremeScanMarket(call_args.yes_price, call_args.no_price,
                                                 call_args.hours))
    /\ UNCHANGED <<beside_call, call_args>>

ExtremeInitAll ==
    /\ RuntimeInit /\ strategy = "spread"
    /\ WsIdle
    /\ RlInit(SingleTier)
    /\ PsInit
    /\ CapIdle /\ LoopIdle /\ DrIdle /\ ArIdle /\ FlIdle /\ HlInit /\ TkIdle
    /\ call_args \in ExtremeArgs
    /\ call_result = NotReturned

ExtremeNext == ExtremeApply

SpecExtreme == ExtremeInitAll /\ [][ExtremeNext]_vars

----------------------------------------------------------------------------
(* cluster_markets of the semantic matcher on the text of a response *)

MaxClusterEntries == 2

(* max_clusters of cluster_markets *)
MaxClusters == 50

(* What a cluster entry holds under early_market_index and
   late_market_index: nothing (or null), an integer, a string, a float *)
IndexKinds == {"absent", "int", "string", "float"}

(* The entries of a clusters list: objects with their two indices, and
   values that are no objects *)
ClusterEntries ==
    [is_object : {TRUE}, early : IndexKinds, late : IndexKinds]
        \cup {[is_object |-> FALSE, early |-> "absent", late |-> "absent"]}

EntryLists == UNION {[1..n -> ClusterEntries] : n \in 0..MaxClusterEntries}

(* The JSON values a response can hold: text that is no JSON, a value that
   is no object, and an object by what it has under "clusters" *)
NoClustersList == <<>>
ResponseBodies ==
    [json : {"text", "list", "string", "number", "null"}, clusters : {"absent"},
     entries : {NoClustersList}]
        \cup [json : {"object"}, clusters : {"absent", "null", "number", "string", "object"},
              entries : {NoClustersList}]
        \cup [json : {"object"}, clusters : {"list"}, entries : EntryLists]

(* The response text: the body alone, or inside a ```json or a ``` fence *)
Fences == {"none", "json", "plain"}
Responses == [fence : Fences, body : ResponseBodies]

(* 'response_text.split("```json")[1].split("```")[0].strip()', and the same
   for a plain fence: the text between the fences; a text without a fence
   is parsed whole *)
StripFences(response) == response.body

NoException == "none"
ClusterResult(raised, clusters) == [raised |-> raised, clusters |-> clusters]

(* 'early_idx - 1' and 'late_idx - 1' on what the entry holds: a string has
   no subtraction *)
IndexMinusOneRaises(kind) == kind = "string"

(* The loop over clusters[:max_clusters]: the tuples appended so far, ended
   by the first entry that raises *)
RECURSIVE ConvertEntries(_, _, _)
ConvertEntries(entries, i, result) ==
    IF i > Len(entries) \/ i > MaxClusters THEN ClusterResult(NoException, result)
    ELSE LET cluster == entries[i]
         IN IF ~cluster.is_object THEN ClusterResult("AttributeError", <<>>)
            ELSE IF cluster.early # "absent" /\ cluster.late # "absent"
            THEN IF IndexMinusOneRaises(cluster.early) \/ IndexMinusOneRaises(cluster.late)
                 THEN ClusterResult("TypeError", <<>>)
                 ELSE ConvertEntries(entries, i + 1,
                                     Append(result, <<cluster.early, cluster.late>>))
            ELSE ConvertEntries(entries, i + 1, result)

(* cluster_markets from the response text on: json.loads, data.get, the
   slice and the loop; only json.JSONDecodeError is caught. None, a number
   and a dict cannot be sliced (a dict raises KeyError from Python 3.12 on);
   a string, taken as not empty, is sliced and its characters have no get. *)
ClusterMarkets(response) ==
    LET data == StripFences(response)
    IN IF data.json = "text" THEN ClusterResult(NoException, <<>>)
       ELSE IF data.json # "object" THEN ClusterResult("AttributeError", <<>>)
       ELSE IF data.clusters = "absent" THEN ClusterResult(NoException, <<>>)
       ELSE IF data.clusters \in {"null", "number", "object"}
       THEN ClusterResult("TypeError", <<>>)
       ELSE IF data.clusters = "string" THEN ClusterResult("AttributeError", <<>>)
       ELSE ConvertEntries(data.entries, 1, <<>>)

ClusterApply ==
    /\ call_result = NotReturned
    /\ call_result' = Returned(ClusterMarkets(call_args))
    /\ UNCHANGED <<beside_call, call_args>>

ClusterInitAll ==
    /\ RuntimeInit /\ strategy = "calendar"
    /\ WsIdle
    /\ RlInit(SingleTier)
    /\ PsInit
    /\ CapIdle /\ LoopIdle /\ DrIdle /\ ArIdle /\ FlIdle /\ HlInit /\ TkIdle
    /\ call_args \in Responses
    /\ call_result = NotReturned

ClusterNext == ClusterApply

SpecCluster == ClusterInitAll /\ [][ClusterNext]_vars

----------------------------------------------------------------------------
(* The executor's tracking on its own *)

TkInitAll ==
    /\ RuntimeInit /\ strategy \in {"spread", "calendar"}
    /\ WsIdle
    /\ RlInit(SingleTier)
    /\ PsInit
    /\ CapIdle /\ LoopIdle /\ DrIdle /\ ArIdle /\ FlIdle /\ HlInit /\ CallIdle
    /\ TkIdle

TkNext ==
    \/ \E token \in Tokens, price \in LimitPrices, outcome \in VenueOutcomes :
          TkEnter(token, price, outcome)
    \/ \E token \in Tokens, outcome \in VenueOutcomes : TkExit(token, outcome)
    \/ \E pair \in CalendarPairs, price_no, price_yes \in LimitPrices,
          o1, o2, rollback \in VenueOutcomes :
          TkCalendarEnter(pair, price_no, price_yes, o1, o2, rollback)
    \/ \E pair \in CalendarPairs, bid_no, bid_yes \in BidLevels, o1, o2 \in VenueOutcomes :
          TkCalendarExit(pair, bid_no, bid_yes, o1, o2)

SpecTrack == TkInitAll /\ [][TkNext]_vars

----------------------------------------------------------------------------
(* The fill simulator on its own *)

FlInitAll ==
    /\ RuntimeInit /\ strategy = "spread"
    /\ CallIdle
    /\ TkIdle
    /\ WsIdle
    /\ RlInit(SingleTier)
    /\ PsInit
    /\ CapIdle
    /\ LoopIdle
    /\ DrIdle
    /\ ArIdle
    /\ HlInit
    /\ \E book \in Books, side \in {"BUY", "SELL"}, size \in RequestSizes :
          FlInit(book, side, size)

FlNext == FlSimulate

SpecFill == FlInitAll /\ [][FlNext]_vars

----------------------------------------------------------------------------
(* The health check on its own *)

HlInitAll ==
    /\ RuntimeInit /\ strategy = "spread"
    /\ CallIdle
    /\ TkIdle
    /\ WsIdle
    /\ RlInit(SingleTier)
    /\ PsInit
    /\ CapIdle
    /\ LoopIdle
    /\ DrIdle
    /\ ArIdle
    /\ FlIdle
    /\ HlInit

HlNext ==
    \/ HlConnect
    \/ HlMessage
    \/ HlClose
    \/ HlTick

SpecHealth == HlInitAll /\ [][HlNext]_vars

----------------------------------------------------------------------------
(* Properties *)

(* A step of the running process (not a restart) *)
SameRun == restarts' = restarts

StoreKeys == DOMAIN pm_positions

(* C1: at every moment every key of the in-memory open_positions of a
   store-backed strategy is also a key of the position file on disk (the
   store is written before the memory on entry, the memory is cleared before
   the store on exit). *)
C1_MemoryWithinDisk ==
    strategy \in {"spread", "calendar"} => DictKeys(open_positions) \subseteq DOMAIN disk

(* The two results of a calendar entry are known and exactly one BUY succeeded *)
OneLegFilled ==
    /\ strategy = "calendar"
    /\ scan_pc = "legs"
    /\ Len(enter_results) = 2
    /\ AllKnown(enter_results)
    /\ (enter_results[1] = "success") # (enter_results[2] = "success")

FilledLeg == IF enter_results[1] = "success" THEN cur_opp.legs[1] ELSE cur_opp.legs[2]

NothingStored ==
    /\ open_positions' = open_positions
    /\ pm_positions' = pm_positions
    /\ disk' = disk

(* The entry moves on from a one-leg fill by submitting a SELL of the filled
   leg's token and the entered size at the given price, storing nothing; and
   the entry then ends (returns False) with nothing stored. *)
RollbackIssuedAt(price_of) ==
    /\ (OneLegFilled /\ scan_pc' # "legs" /\ SameRun) =>
          /\ scan_pc' = "rollback"
          /\ Len(enter_orders') = 3
          /\ enter_orders'[3].side = "SELL"
          /\ enter_orders'[3].token = FilledLeg
          /\ enter_orders'[3].size = cur_opp.size
          /\ enter_orders'[3].price = price_of[enter_orders'[3].book_bid]
          /\ NothingStored
    /\ (scan_pc = "rollback" /\ scan_pc' # "rollback" /\ SameRun) =>
          /\ scan_pc' = "sleep"
          /\ NothingStored

(* C2 as stated: when exactly one BUY leg of a calendar entry succeeds, a
   SELL of the filled leg's token and the entered size is issued at once,
   priced at the best bid, or at 0.01 when there is no bid; nothing is stored
   in memory or on disk and the entry returns False. *)
C2_RollbackAtBestBid ==
    [][RollbackIssuedAt([b \in BidLevels |-> IF b > 0 THEN b ELSE PennyPrice])]_vars

TwoLeg == strategy \in {"calendar", "cross"}

(* A key appears in the in-memory map or in the store's map *)
PositionAdded ==
    \/ ~(DictKeys(open_positions') \subseteq DictKeys(open_positions))
    \/ ~(DOMAIN pm_positions' \subseteq StoreKeys)

(* C3: in a two-leg entry the two orders are submitted together, before
   either result is known; no key is added to the in-memory map or to the
   store while a result is still pending, one is added only when both orders
   succeeded, and the file gains only keys the store holds. *)
C3_AddedOnlyAfterBothFilled ==
    [][(TwoLeg /\ SameRun) =>
          /\ (scan_pc # "legs" /\ scan_pc' = "legs") =>
                /\ Len(enter_orders') = 2
                /\ enter_orders'[1].side = "BUY" /\ enter_orders'[2].side = "BUY"
                /\ enter_results' = <<"pending", "pending">>
          /\ PositionAdded =>
                /\ Len(enter_results) = 2
                /\ enter_results[1] \in {"success", "order"}
                /\ enter_results[2] \in {"success", "order"}
          /\ DOMAIN disk' \subseteq (DOMAIN disk) \cup (DOMAIN pm_positions')]_vars

(* C3 witness: both BUYs of a calendar entry succeeded and the position is in
   the in-memory map under both tokens *)
C3_Witness ==
    /\ strategy = "calendar"
    /\ scan_pc = "store1"
    /\ enter_results = <<"success", "success">>
    /\ DictHas(open_positions, cur_opp.legs[1])
    /\ DictHas(open_positions, cur_opp.legs[2])

(* C4: when the rollback SELL of an orphan leg failed, a position with status
   Failed is on record (in the store or in the file); the rollback is not
   retried. *)
C4_FailedRollbackRecorded ==
    (strategy = "calendar" /\ rollback_result = "none") =>
        /\ \/ \E t \in StoreKeys : pm_positions[t].status = "Failed"
           \/ \E t \in DOMAIN disk : Load(disk)[t].status = "Failed"
        /\ scan_pc # "rollback"

(* C5: in a cross-platform entry, when exactly one of the two venue orders
   succeeded, the entry moves on by issuing a compensating SELL of the filled
   leg on the venue where it filled. *)
C5_CrossCompensates ==
    [][(/\ strategy = "cross"
        /\ scan_pc = "legs"
        /\ Len(enter_results) = 2
        /\ AllKnown(enter_results)
        /\ (enter_results[1] = "success") # (enter_results[2] = "order")
        /\ scan_pc' # "legs"
        /\ SameRun) =>
          \E i \in DOMAIN enter_orders' :
              /\ enter_orders'[i].side = "SELL"
              /\ LET f == IF enter_results[1] = "success" THEN 1 ELSE 2
                 IN  /\ enter_orders'[i].venue = enter_orders[f].venue
                     /\ enter_orders'[i].token = enter_orders[f].token]_vars

(* A key leaves the in-memory map or the store's map *)
PositionRemoved ==
    \/ ~(DictKeys(open_positions) \subseteq DictKeys(open_positions'))
    \/ ~(StoreKeys \subseteq DOMAIN pm_positions')

(* C6: a two-leg position's keys leave the in-memory map and the store only
   when the SELLs of both legs succeeded; when an exit attempt ends with a
   failed leg, both token keys of the position are still in memory and in
   the store, and the file is untouched. *)
C6_RemovedOnlyWhenBothSold ==
    [][(strategy = "calendar" /\ SameRun) =>
          /\ PositionRemoved =>
                /\ mon_pc \in {"sell", "unstore1", "unstore2"}
                /\ exit_results = <<"success", "success">>
          /\ (/\ mon_pc = "sell"
              /\ mon_pc' # "sell"
              /\ \E i \in DOMAIN exit_results : exit_results[i] # "success") =>
                /\ \A i \in 1..2 : /\ exit_pos.legs[i] \in DictKeys(open_positions')
                                   /\ exit_pos.legs[i] \in DOMAIN pm_positions'
                /\ disk' = disk]_vars

(* C7: a leg of a two-leg position whose SELL already succeeded is never
   submitted for sale again. *)
C7_SoldLegNotResold ==
    strategy = "calendar" =>
        \A i \in DOMAIN exit_orders :
            exit_results[i] = "pending" =>
                <<exit_pos.id, exit_orders[i].token>> \notin sold_legs

(* C8: once the strategy is constructed after a restart, every position of
   the strategy in the store is in the in-memory open_positions. *)
C8_RestoredAfterRestart ==
    [][restarts' = restarts + 1 =>
          GetPositionsByStrategy(pm_positions', strategy) \subseteq DictKeys(open_positions')]_vars

(* C9: right after a reconnect completed, a streamer that held a non-empty
   subscription set before the disconnect holds the same set, and the venue
   has a subscription for every token of it on the new connection. *)
C9_SubscriptionsSurviveReconnect ==
    (ws_op = "reconnected" /\ held_before # {}) =>
        /\ TokenSet = held_before
        /\ held_before \subseteq server_subs

(* C10: a monitor pass invokes exit_position for every open position that had
   force_exit set when the pass began. *)
C10_ForcedExitInvoked ==
    [][(mon_pc # "sleep" /\ mon_pc' = "sleep" /\ SameRun) => pass_pending' = {}]_vars

(* The position that holds token t, when there is one *)
Position(t) == DictGet(open_positions, t)

(* C11: whenever the streamer delivers an update for the token of an open
   position whose best bid is above the position's entry price, force_exit
   is set on that position. *)
C11_OutbidSetsForceExit ==
    [][\A t \in Tokens, b \in BidLevels :
          (/\ WsReceive(PriceMsg(t, b))
           /\ link_up
           /\ DictHas(open_positions, t)
           /\ b > Position(t).entry_price)
          => Position(t).id \in forced']_vars

(* The streamer's receive loop is taking messages *)
Listening == IF streamer = "core" THEN is_connected /\ ws # 0 ELSE run_pc = "listen"

(* C12: an exception raised by the price-update callback is caught inside
   the streamer: is_connected is what it was before the callback ran, and
   the receive loop goes on to the next message. *)
C12_CallbackExceptionContained ==
    [][(ws_op' = "callback_raised" /\ Listening)
          => (is_connected' = is_connected /\ Listening')]_vars

(* stop() has cleared the running flag of a loop that has not ended yet *)
StoppedInFlight == ~running /\ run_pc \notin {"idle", "done"}

(* The owner itself calls connect() *)
OwnerConnects == \E ok \in BOOLEAN : WsConnect(ok)

(* C13: stop() leaves the streamer not connected, and no step of a run loop
   or reconnect loop that was connecting, sleeping or listening when stop()
   ran makes it connected again. *)
C13_StopLeadsToClosed ==
    [][(StoppedInFlight' /\ ~OwnerConnects) => ~is_connected']_vars

(* The number of admissions completed at a time t with a < t <= b *)
Completions(a, b) == Cardinality({i \in DOMAIN rl_done : a < rl_done[i] /\ rl_done[i] <= b})

(* Tier k's bound holds for the completed admissions in every window *)
WithinTier(k) ==
    \A t \in 0..MaxTime :
        Completions(t - rl_tiers[k].time_window, t) <= rl_tiers[k].max_calls

(* C14: for a single RateLimiter(max_calls, time_window) used by any number
   of concurrent callers, at most max_calls acquire() calls complete inside
   any window of length time_window. *)
C14_SingleTierWindow == Len(rl_tiers) = 1 => WithinTier(1)

(* Two callers were made to wait by a single limiter, and max_calls calls
   completed inside one window. *)
C14_Witness ==
    /\ Len(rl_tiers) = 1
    /\ Len(rl_done) > rl_tiers[1].max_calls + 1
    /\ \E t \in 0..MaxTime :
          Completions(t - rl_tiers[1].time_window, t) = rl_tiers[1].max_calls
    /\ \E c \in Callers : rl_caller[c].pc = "sleeping"
    /\ \E c \in Callers : rl_caller[c].pc = "queued"

(* C15: an admission through the multi-tier limiter passes every tier in
   order, and for every tier at most max_calls admissions complete inside
   any window of that tier's length, also when callers wait at different
   tiers at the same time. *)
C15_EveryTierWindow == Len(rl_tiers) > 1 => \A k \in DOMAIN rl_tiers : WithinTier(k)

(* A mutation of the store is between its change of memory and the end of
   its _save *)
Mutating == ps_pc \in {"save", "write", "replace"}

(* C16: every mutation of the store persists by writing a temporary file
   and renaming it over the store file, so that at whatever point the
   process dies the store file holds the complete contents from before the
   mutation or the complete contents after it, never a partial write. *)
C16_StoreFileNeverPartial ==
    /\ ps_fs[StorePath].kind # "partial"
    /\ Mutating => ps_fs[StorePath] = ps_before
    /\ ps_pc = "idle" =>
          ps_fs[StorePath] \in {ps_before, JsonFile(Dump(ps_positions))}

(* The process died while _save was writing the temporary file of a
   mutation of a store whose file held a position *)
C16_Witness ==
    /\ ps_pc = "dead"
    /\ ps_fs[TmpPath].kind = "partial"
    /\ ps_fs[StorePath].kind = "json"
    /\ ps_fs[StorePath] = ps_before
    /\ DOMAIN ps_fs[StorePath].doc # {}

(* C17: for every store state reached by add, update, remove and clear,
   loading the file that the last _save wrote yields a store equal to it. *)
C17_LoadOfSaveIsIdentity ==
    (ps_pc = "idle" /\ ps_saved) =>
        /\ ps_fs[StorePath].kind = "json"
        /\ Load(ps_fs[StorePath].doc) = ps_positions

(* A store of two positions, one of them updated, was saved *)
C17_Witness ==
    /\ ps_pc = "idle" /\ ps_saved
    /\ Cardinality(DOMAIN ps_positions) = 2
    /\ \E t \in DOMAIN ps_positions : ps_positions[t].status = "CLOSED"
    /\ \E t \in DOMAIN ps_positions : ps_positions[t].status = "OPEN"

(* _load runs on a file that json.load rejects *)
LoadsCorrupt == ps_pc = "dead" /\ ps_pc' # "dead" /\ Corrupt(ps_fs[StorePath])

(* C18: loading a corrupt position file never aborts: the store starts
   empty, and the corrupt file is renamed to a backup, so that the store's
   path no longer holds the corrupt content. *)
C18_CorruptFileRenamed ==
    [][LoadsCorrupt =>
          /\ ps_pc' = "idle"
          /\ ps_positions' = EmptyMap
          /\ ps_fs'[BackupPath] = ps_fs[StorePath]
          /\ ~Corrupt(ps_fs'[StorePath])]_vars

(* C18, amended: loading a corrupt position file never aborts and the store
   starts empty; the corrupt file is renamed to a backup, and the store's
   path then holds nothing, unless the rename fails, in which case every
   file is left as it was. *)
C18_CorruptFileRenamedOrLeft ==
    [][LoadsCorrupt =>
          /\ ps_pc' = "idle"
          /\ ps_positions' = EmptyMap
          /\ \/ ps_fs' = ps_fs
             \/ /\ ps_fs'[BackupPath] = ps_fs[StorePath]
                /\ ps_fs'[StorePath] = Absent]_vars

(* A store that had saved a position found its file corrupt, moved it to
   the backup path, and started empty *)
C18_Witness ==
    /\ ps_pc = "idle"
    /\ ps_positions = EmptyMap
    /\ ps_fs[BackupPath] = Garbage
    /\ ps_fs[StorePath] = Absent
    /\ ps_fs[TmpPath] = Absent

(* The entry's write of the store failed: the step after add_position left
   a file that is not the dump of the store *)
EntryWriteFailed ==
    /\ scan_pc \in {"store1", "store2"}
    /\ scan_pc' # scan_pc
    /\ SameRun
    /\ disk' # Dump(pm_positions')

(* C19: when the store write fails after an entry order succeeded, the
   failure is not silenced: the position is marked Failed, and the runtime
   keeps running. *)
C19_WriteFailureMarksFailed ==
    [][EntryWriteFailed =>
          /\ \E t \in DOMAIN pm_positions' : pm_positions'[t].status = "Failed"
          /\ scan_pc' \in {"sleep", "store2"}]_vars

(* The positions open_positions holds *)
OpenPositions == {open_positions[i].pos : i \in DOMAIN open_positions}

PosTokens(pos) == {pos.legs[i] : i \in DOMAIN pos.legs}

(* C20: no two open positions of a strategy runtime share a token: an entry
   never creates or overwrites an open-position record for a token that
   belongs to an open position already. *)
C20_NoSharedToken ==
    \A p, q \in OpenPositions : p.id # q.id => PosTokens(p) \cap PosTokens(q) = {}

(* An open position whose fingerprint is the opportunity's *)
MatchesOpenPosition(opp) == \E p \in OpenPositions : p.opp_key = opp.key

(* C21: the scan loop never calls should_enter or enter_position for an
   opportunity whose fingerprint is in the seen-set or matches an open
   position (single-leg opportunities, and two-leg opportunities whose
   fingerprint is the pair of leg tokens). *)
C21_SeenOrOpenSkipped ==
    [][\A opp \in Opportunities, sim \in {"ok", "abort"} :
          ScanEnter(opp, sim) => opp.key \notin seen /\ ~MatchesOpenPosition(opp)]_vars

(* The scan loop took up an opportunity while the opportunity of an open
   position, already in the seen-set, was on offer as well *)
C21_Witness ==
    /\ scan_pc = "legs" /\ strategy \in {"spread", "calendar"}
    /\ \E opp \in Opportunities :
          /\ opp.key # cur_opp.key
          /\ opp.key \in seen
          /\ MatchesOpenPosition(opp)

(* C22: the committed capital (entry price times size) summed over the open
   positions, plus what is reserved for in-flight orders, is at most the
   wallet balance obtained at the last balance refresh. The runtime reserves
   nothing for an order in flight, so the reserved amount is zero. *)
C22_CapitalWithinBalance ==
    cap_cache # NoBalance => CommittedCapital(cap_open) <= cap_cache

(* The tasks were cancelled while enter_position awaited its orders *)
CancelledInEntry ==
    /\ strategy \in {"spread", "calendar"}
    /\ scan_pc = "cancelled" /\ cur_opp # NoOpp /\ rollback_result = "idle"

(* The position of the entry in flight is in open_positions under every leg *)
EntryRecorded ==
    \A i \in DOMAIN cur_opp.legs :
        /\ DictHas(open_positions, cur_opp.legs[i])
        /\ DictGet(open_positions, cur_opp.legs[i]).opp_key = cur_opp.key

(* C23: a submitted order is awaited to completion: when the strategy tasks
   are cancelled at shutdown while an entry order is in flight, an order
   that succeeded at the venue is not left without a recorded position
   (single-leg) or without the handling of both results and the rollback
   (two-leg). *)
C23_SubmittedOrderAwaited ==
    CancelledInEntry =>
        \A i \in DOMAIN enter_results : LegSuccess(enter_results[i]) => EntryRecorded

(* C24: an uncaught fault inside an iteration of the scan loop or of the
   monitor loop (raised by scan, should_enter, enter_position, should_exit or
   exit_position) does not terminate the loop: the loop sleeps 60 s and,
   while running is still true, performs a further iteration. *)
C24_FaultDoesNotEndLoop ==
    [][\A l \in Loops :
          /\ (lp_pc[l] = "body" /\ lp_pc'[l] # "body" /\ lp_last'[l] # "none") =>
                (lp_pc'[l] = "sleep" /\ lp_sleep'[l] = ErrorBackoff)
          /\ (lp_pc[l] = "sleep" /\ lp_pc'[l] # "sleep" /\ lp_last[l] # "none"
              /\ lp_running) =>
                (lp_pc'[l] = "body" /\ lp_iters'[l] = lp_iters[l] + 1)]_vars

(* Both loops are in a further iteration after an iteration that raised *)
C24_Witness ==
    \A l \in Loops : lp_pc[l] = "body" /\ lp_last[l] # "none" /\ lp_iters[l] > 1 /\ lp_running

(* C25: with dry_run set, the executor simulates every entry as a successful
   fill at the observed limit price without contacting the venue, and no
   order of an entry, an exit or a rollback is posted to a venue. *)
C25_DryRunSimulatesFill ==
    dr_dry_run =>
        /\ dr_posted = {}
        /\ (dr_last.side = "BUY") =>
              (LegSuccess(dr_last.result) /\ dr_last.token \in DOMAIN dr_held
               /\ dr_held[dr_last.token] = dr_last.price)

(* C26: every opportunity the calendar detector or the cross-platform
   detector emits with total_cost < 1 has expected_profit equal to 1 minus
   total_cost minus the fees of both legs (2 times estimated_fee). *)
C26_ExpectedProfitNetOfFees ==
    (ar_opp # NoArOpp /\ ar_opp.total_cost < Payoff) =>
        ar_opp.expected_profit = Payoff - ar_opp.total_cost - 2 * EstimatedFee

(* A two-leg position was accepted and recorded *)
ArRecorded == ar_pos # NoArPos

(* C27: for every two-leg position that is accepted and recorded, the sum of
   the two recorded entry prices is at most 1 minus min_profit_threshold
   minus 2 times estimated_fee at the moment of acceptance. The entry prices
   are cost1 / size1 and cost2 / size2. *)
C27_EntryCostWithinThreshold ==
    ArRecorded =>
        ar_pos.cost1 * ar_pos.size2 + ar_pos.cost2 * ar_pos.size1
            <= CostThreshold * ar_pos.size1 * ar_pos.size2

(* A calendar position recorded at an average price above the best ask: the
   NO leg was filled across two levels of the book *)
C27_Witness ==
    /\ ar_kind = "calendar"
    /\ ArRecorded
    /\ ar_pos.cost1 > ar_pos.size1 * 400 /\ ar_pos.cost1 < ar_pos.size1 * 500

(* The ladder the call consumed, and a call that returned a result *)
FlLadder == BookSide(fl_book, fl_call.side)

FlReturned == fl_out # NotCalled /\ fl_out # NoFill

(* C28: for every price-sorted ladder L and every requested size s > 0 for
   which the fill simulator returns a result, filled_size is at most s, and
   the average price (total_cost over filled_size) is not below L[0].price
   for BUY and not above L[0].price for SELL. *)
C28_FillWithinLadder ==
    (FlReturned /\ fl_call.size > 0) =>
        /\ fl_out.filled_size <= fl_call.size
        /\ fl_call.side = "BUY" =>
              fl_out.total_cost >= FlLadder[1].price * fl_out.filled_size
        /\ fl_call.side = "SELL" =>
              fl_out.total_cost <= FlLadder[1].price * fl_out.filled_size

(* A SELL filled in full across two levels of the bids, below the best bid *)
C28_Witness ==
    /\ FlReturned
    /\ fl_call.side = "SELL"
    /\ fl_out.filled_size = fl_call.size
    /\ fl_out.total_cost < FlLadder[1].price * fl_out.filled_size

(* The time the silence is counted from: the last message, or the moment
   of connection when no message has arrived yet *)
SilentSince == IF hl_last = 0 THEN hl_since ELSE hl_last

(* C29: a connected streamer that has received no message for max_silence
   seconds, counted from the last message or from the moment of connection
   when no message has arrived yet, is reported unhealthy by the health
   check. *)
C29_SilentStreamerUnhealthy ==
    (hl_connected /\ hl_now - SilentSince >= MaxSilence) =>
        ~IsHealthyAt(hl_connected, hl_last, hl_now, MaxSilence)

(* Twice the wait, and max_reconnect_delay at most *)
DoubledCapped(d) == IF 2 * d <= MaxReconnectDelay THEN 2 * d ELSE MaxReconnectDelay

(* The reconnect loop of the core streamer starts, and a reconnect of it, or
   a connect of the calendar streamer's run loop, fails or succeeds *)
CoreLoopStarted == streamer = "core" /\ run_pc = "idle" /\ run_pc' = "loop"

CoreReconnectFailed ==
    streamer = "core" /\ run_pc = "reconnecting" /\ run_pc' = "loop" /\ ~is_connected'

CoreReconnected ==
    streamer = "core" /\ run_pc = "reconnecting" /\ run_pc' = "loop" /\ is_connected'

CalConnectFailed == streamer = "calendar" /\ run_pc = "connecting" /\ run_pc' = "loop"

(* C30: in the auto-reconnect loop the wait before the next attempt starts
   at 1 s, doubles after each consecutive failed reconnect, never exceeds
   max_reconnect_delay, and is reset to 1 s by a successful reconnect. The
   first wait of a row of failures may be the initial 1 s or, where the loop
   doubles before it sleeps, its double. *)
C30_ReconnectBackoff ==
    [][/\ CoreLoopStarted => reconnect_delay' = 1
       /\ CoreReconnectFailed => reconnect_delay' = DoubledCapped(reconnect_delay)
       /\ CoreReconnected => reconnect_delay' = 1
       /\ CalConnectFailed =>
             IF reconnect_count = 0
             THEN reconnect_delay' \in {1, DoubledCapped(1)}
             ELSE reconnect_delay' = DoubledCapped(reconnect_delay)]_vars

(* A step that submits the two orders of a two-leg entry: the calendar entry
   passes its checks and goes to the gather, the cross-platform entry runs *)
ArSubmits ==
    \/ ar_kind = "calendar" /\ ar_fills = NoFills /\ ar_fills' # NoFills
    \/ \E o1, o2 \in VenueOutcomes : ArCrossEnter(o1, o2)

(* The fills simulated for the entry show both legs fillable in full at a
   total cost that passes the profit threshold *)
ArSimulatedFillable(opp, fills) ==
    /\ fills[1] # NoFill /\ fills[2] # NoFill
    /\ fills[1].fully_filled /\ fills[2].fully_filled
    /\ fills[1].total_cost * fills[2].filled_size + fills[2].total_cost * fills[1].filled_size
          < CostThreshold * fills[1].filled_size * fills[2].filled_size

(* C31: every two-leg entry attempt runs the fill simulation on both legs
   immediately before submitting, and submits no order when either leg is
   not fully fillable or the slippage-adjusted total cost fails the profit
   threshold: a step that submits orders has the two simulated fills at
   hand, both full and within the threshold. *)
C31_SubmitOnlyAfterSimulation ==
    [][ArSubmits => ArSimulatedFillable(ar_opp, ar_fills')]_vars

(* The emission rule as the scan is described: the cost below the threshold,
   the annualized return at least min_annualized_roi, no invalidity risk *)
ScanRule(ask_no_early, ask_yes_late, early, late, days) ==
    /\ ask_no_early.price + ask_yes_late.price < Payoff - MinProfitThreshold - 2 * EstimatedFee
    /\ (Payoff - (ask_no_early.price + ask_yes_late.price)) * DaysPerYear
          >= MinAnnualizedRoi * days
    /\ ~HasInvalidRisk(early) /\ ~HasInvalidRisk(late)

SmallerAskSize(ask_no_early, ask_yes_late) ==
    IF ask_no_early.size < ask_yes_late.size THEN ask_no_early.size ELSE ask_yes_late.size

(* The calendar scan has evaluated the pair *)
PairScanned == call_result # NotReturned

(* C32 as stated: for every adjacent pair with both best asks available the
   calendar scan emits an opportunity exactly when the total cost is below
   1 - min_profit_threshold - 2 * estimated_fee, the annualized ROI of
   1 - total_cost is at least min_annualized_roi and neither market shows
   invalidity risk. *)
C32_EmittedExactlyOnRule ==
    PairScanned =>
        (Result # NoArOpp <=>
            ScanRule(call_args.ask_no_early, call_args.ask_yes_late,
                     call_args.early, call_args.late, call_args.days))

(* C32 amended: for every adjacent pair the scan evaluates, with both best
   asks available, it emits an opportunity exactly when the rule above holds
   and the smaller of the two best-ask sizes is positive. *)
C32_EmittedOnRuleWithSize ==
    PairScanned =>
        (Result # NoArOpp <=>
            /\ ScanRule(call_args.ask_no_early, call_args.ask_yes_late,
                        call_args.early, call_args.late, call_args.days)
            /\ SmallerAskSize(call_args.ask_no_early, call_args.ask_yes_late) > 0)

(* An opportunity was emitted whose annualized return passes only just: the
   profit of 0.2 over 365 days *)
C32_Witness ==
    /\ PairScanned
    /\ Result # NoArOpp
    /\ Result.total_cost = 800
    /\ call_args.days = 365

(* should_exit has returned for a position with both best bids available *)
ExitChecked == call_result # NotReturned /\ call_args.bid_no > 0 /\ call_args.bid_yes > 0

ExitValue == call_args.bid_no + call_args.bid_yes

(* C33: for a calendar position with both best bids available, should_exit
   returns true exactly when bid_NO_early + bid_YES_late >= total_cost +
   2 * fee + early_exit_threshold (take profit, the boundary included) or
   total_cost - (bid_NO_early + bid_YES_late) > max_loss_tolerance (stop
   loss), and false otherwise. *)
C33_ExitOnProfitOrLoss ==
    ExitChecked =>
        (Result <=>
            \/ ExitValue >= call_args.total_cost + 2 * EstimatedFee + EarlyExitThreshold
            \/ call_args.total_cost - ExitValue > MaxLossTolerance)

(* The price the market quotes for a side *)
QuotedFor(side) == IF side = "YES" THEN call_args.yes_price ELSE call_args.no_price

(* C34: for every open market with enough time until close in which either
   outcome (YES or NO) is priced at or below buy_threshold, the
   extreme-price scan emits an opportunity for the token of that low-priced
   outcome, also when the other outcome of the same market is priced at or
   above 0.99. *)
C34_LowOutcomeEmitted ==
    (/\ call_result # NotReturned
     /\ call_args.hours >= MinHoursUntilClose
     /\ (call_args.yes_price <= BuyThreshold \/ call_args.no_price <= BuyThreshold)) =>
        /\ Result # NoExtreme
        /\ QuotedFor(Result.side) <= BuyThreshold

(* An entry that names two integer indices *)
ValidEntry(e) == e.is_object /\ e.early = "int" /\ e.late = "int"

(* The response is no valid clusters object: no JSON, no object, a clusters
   value that is no list, or a list without one valid entry in it *)
InvalidResponse(response) ==
    \/ response.body.json # "object"
    \/ response.body.clusters \notin {"absent", "list"}
    \/ /\ response.body.clusters = "list"
       /\ response.body.entries # <<>>
       /\ \A i \in DOMAIN response.body.entries : ~ValidEntry(response.body.entries[i])

(* C35: for every response text of the semantic matcher that is not a valid
   clusters object (non-JSON text, JSON that is not an object, a clusters
   value that is not a list, cluster entries with missing or non-integer
   indices), cluster_markets yields zero clusters for it and never raises. *)
C35_InvalidResponseYieldsNothing ==
    (call_result # NotReturned /\ InvalidResponse(call_args)) =>
        Result = ClusterResult(NoException, <<>>)

(* main_async has stopped the strategy and cancelled its task: the scan loop
   and the monitor loop have ended *)
ShutdownDone == scan_pc = "cancelled" /\ mon_pc = "cancelled"

StreamerClosed == ~is_connected /\ ws = 0

(* C36: after the shutdown signal sets running to false, the scan loop, the
   monitor loop and the stats loop of the runtime each terminate, and the
   streamer is closed as part of the shutdown: once the shutdown has run,
   the loops have ended and the streamer holds no open connection. *)
C36_ShutdownClosesStreamer == ShutdownDone => StreamerClosed

(* The last time the connection now open was heard from: its last message,
   or the connect when it has carried none *)
HeardOnConnection == IF hl_last >= hl_since THEN hl_last ELSE hl_since

(* C37: after a successful reconnect the health check reports the connection
   healthy until max_silence elapses without a message on the new
   connection, so that the reconnect loop waits its health interval instead
   of reconnecting again at once. *)
C37_ReconnectedIsHealthy ==
    (hl_connected /\ hl_now - HeardOnConnection < MaxSilence) =>
        IsHealthyAt(hl_connected, hl_last, hl_now, MaxSilence)

(* C38: the seen-set only grows: once the scan loop has considered an
   opportunity's token id, no later scan of the same runtime calls
   should_enter or enter_position for that token id again, also when the
   earlier entry was declined or failed and also after the position was
   exited. Every step of the running process keeps what the seen-set holds,
   and the scan loop takes up only a token id that is not in it and puts
   it there. *)
C38_SeenOnlyGrows ==
    [][SameRun =>
          /\ seen \subseteq seen'
          /\ \A opp \in Opportunities, sim \in {"ok", "abort"} :
                ScanEnter(opp, sim) => opp.key \notin seen /\ opp.key \in seen']_vars

(* A token id was considered and its entry held nothing, or its position is
   gone again: the scan loop is about to scan again with no position open *)
C38_Witness ==
    /\ strategy \in {"spread", "calendar"}
    /\ scan_pc = "sleep"
    /\ seen # {}
    /\ DictKeys(open_positions) = {}
    /\ restarts = 0

(* C39: after every completed entry, exit or rollback, the set of tokens the
   executor tracks as open positions equals the set of tokens of the
   strategy's open positions: a BUY that was rolled back, and the legs of a
   two-leg position that was exited, are no longer tracked by the executor. *)
C39_ExecutorTracksStrategy ==
    tk_last \in {"entry", "exit", "rollback"} => DOMAIN tk_executor = tk_strategy

(* A step of add_position in a running process: the record it has put under
   a key *)
StoredAsPassed ==
    \A t \in DOMAIN pm_positions' :
       (t \notin DOMAIN pm_positions \/ pm_positions'[t] # pm_positions[t]) =>
          LET leg == IF scan_pc = "store1" THEN 1 ELSE 2
          IN  /\ cur_opp.legs[leg] = t
              /\ pm_positions'[t].token_id = <<t>>
              /\ pm_positions'[t].entry_price = cur_opp.prices[leg]
              /\ pm_positions'[t].size = cur_opp.size

(* C40: every record add_position stores carries, in token_id, the key it is
   stored under, and in entry_price and size the values passed to
   add_position, whatever the metadata of the caller holds. *)
C40_RecordAsPassed ==
    [][(SameRun /\ (scan_pc = "store1" \/ scan_pc = "store2")) => StoredAsPassed]_vars

====
